---- MODULE Spec2Model ----
(***************************************************************************)
(* Verification model of the news-crawler family of the repository         *)
(* (multi_source_crawler, multi_source_crawler_fixed, news_crawler,        *)
(* vnexpress_crawler, crawler_by_date_range, stock_market_crawler_v2).     *)
(*                                                                         *)
(* Each program is a specification of its own over the shared variables:   *)
(*   SpecArticle  the per-article functions (parse_date, is_date_in_range, *)
(*                process_article after the seen-URL check)                *)
(*   SpecCsv      multi_source_crawler.save_batch_to_csv on one path       *)
(*   SpecLinks    get_all_article_links of news_crawler/vnexpress_crawler  *)
(*   SpecMSC      multi_source_crawler.crawl_multi_source                  *)
(*   SpecFixed    multi_source_crawler_fixed.crawl_multi_source            *)
(*   SpecNews     news_crawler.crawl_news                                  *)
(*   SpecCBDR     crawler_by_date_range (__main__ + crawl_by_date_range)   *)
(*   SpecSMC      stock_market_crawler_v2 (__main__ + crawl)               *)
(***************************************************************************)
EXTENDS Integers, Sequences, FiniteSets, TLC

VARIABLES
    prog,           \* which program this behaviour runs
    pc,             \* position of the main thread
    cell,           \* <<year, ticker index>> / <<day, ticker index>> / <<keyword index>>
    cells_run,      \* number of cells entered so far (model bound MaxCells)
    all_links,      \* links collected for the current cell (sequence of URLs)
    tasks,          \* the pool's futures: i |-> [st, res]
    seen_urls,      \* module-level seen_urls (seen_urls_for_ticker in the fixed crawler)
    batch,          \* the orchestrator's local batch
    current_batch,  \* stock_market_crawler_v2: what the module-level name refers to
    csv,            \* the output file: NoFile or the sequence of lines written
    total_records,  \* records appended so far
    extract_calls,  \* history: url |-> number of extract_content calls
    appended,       \* history: every record appended to a batch, in order
    flushes,        \* history: sizes of the non-empty batches handed to the sink
    interrupted,    \* a KeyboardInterrupt was delivered to the main thread
    article,        \* SpecArticle/SpecCsv/SpecLinks: the input under test
    result,         \* SpecArticle: what the function under test returned
    lk,             \* SpecLinks: state of get_all_article_links
    exit_status,    \* <<>> while the process runs, <<n>> once it exited with n
    printed,        \* history: the reports the process printed, in order
    locals          \* the local variables of the function a specification steps
                    \* through (batch_update_sentiment_scores, process_all_news, ...)

vars == <<prog, pc, cell, cells_run, all_links, tasks, seen_urls, batch,
          current_batch, csv, total_records, extract_calls, appended, flushes,
          interrupted, article, result, lk, exit_status, printed, locals>>

extVars == <<exit_status, printed, locals>>

crawlVars == <<cell, cells_run, all_links, tasks, seen_urls, batch, current_batch,
               csv, total_records, extract_calls, appended, flushes, interrupted>>

-----------------------------------------------------------------------------
(* Bounds of the model *)

\* number of (year, ticker) cells a modelled run enters before it is cut off
MaxCells == 2
\* longest link list a collector returns for one cell
MaxLinks == 3
\* pool size (MAX_WORKERS is 3..8 in the sources)
MAX_WORKERS == 2
\* batch size (BATCH_SIZE is 50..100 in the sources)
BATCH_SIZE == 2
\* pages per query (max_pages is 50 in the sources)
MaxPages == 5
\* queries a modelled link collection runs before it is cut off
MaxQueries == 2
\* lines a file holds in SpecCsv before the model stops writing
MaxFileLines == 6
\* rows of the news table (total_count) in SpecSentiment
MaxNews == 4
\* batch_size of process_all_news (100 in the source)
FetchSize == 2

-----------------------------------------------------------------------------
(* Dates.  A date is <<y, m, d>>, a time of day <<H, M>>. *)

IsLeap(y) == (y % 4 = 0 /\ y % 100 # 0) \/ y % 400 = 0

DaysIn(y, m) ==
    IF m = 2 THEN (IF IsLeap(y) THEN 29 ELSE 28)
    ELSE IF m \in {4, 6, 9, 11} THEN 30 ELSE 31

NextDay(dt) ==
    IF dt[3] < DaysIn(dt[1], dt[2]) THEN <<dt[1], dt[2], dt[3] + 1>>
    ELSE IF dt[2] < 12 THEN <<dt[1], dt[2] + 1, 1>>
    ELSE <<dt[1] + 1, 1, 1>>

PrevDay(dt) ==
    IF dt[3] > 1 THEN <<dt[1], dt[2], dt[3] - 1>>
    ELSE IF dt[2] > 1 THEN <<dt[1], dt[2] - 1, DaysIn(dt[1], dt[2] - 1)>>
    ELSE <<dt[1] - 1, 12, 31>>

\* datetime comparison: a datetime is <<y, m, d, H, M>>
RECURSIVE TupleLE(_, _)
TupleLE(a, b) ==
    IF a = <<>> THEN TRUE
    ELSE IF Head(a) < Head(b) THEN TRUE
    ELSE IF Head(a) > Head(b) THEN FALSE
    ELSE TupleLE(Tail(a), Tail(b))

Midnight(dt) == dt \o <<0, 0>>

START_DATE == <<2015, 1, 1>>
END_DATE == <<2025, 10, 30>>

-----------------------------------------------------------------------------
(* Date strings.  The text an extractor reads from a page is modelled by   *)
(* its layout (fmt) and the date and time it shows; the empty string has   *)
(* fmt "".  The layouts are named by the strptime format that reads them.  *)

EmptyStr == [fmt |-> "", d |-> <<0, 0, 0>>, t |-> <<0, 0>>]

\* layouts that carry a time of day
TimedLayouts ==
    {"%d/%m/%Y, %H:%M", "%d/%m/%Y %H:%M", "%Y-%m-%d %H:%M:%S", "%H:%M %d/%m/%Y",
     "%Y-%m-%dT%H:%M:%S", "Thu 2, %d/%m/%Y, %H:%M"}
\* layouts that carry a date only
DateLayouts == {"%d/%m/%Y", "%d-%m-%Y", "%Y-%m-%d"}
\* texts that show no date: "2 gio truoc" (11 characters), "hom nay" (7)
JunkLayouts == {"junk-long", "junk-short"}

\* the text is at least 10 characters long (dates are zero padded)
LenGE10(s) == s.fmt \in (TimedLayouts \cup DateLayouts \cup {"junk-long", "iso"})
\* the first 10 characters read as %Y-%m-%d
IsoPrefix(s) == s.fmt \in {"%Y-%m-%d %H:%M:%S", "%Y-%m-%dT%H:%M:%S", "%Y-%m-%d", "iso"}
\* the text contains a blank
HasSpace(s) == s.fmt \in ((TimedLayouts \ {"%Y-%m-%dT%H:%M:%S"}) \cup {"junk-long", "junk-short", "iso"})

\* dt.strftime("%Y-%m-%d %H:%M:%S")
IsoString(d, t) == [fmt |-> "iso", d |-> d, t |-> t]

\* the loop "for fmt in formats: try strptime ... return strftime" followed by
\* "return date_str": the text is read when its layout is among formats
ParseWith(formats, date_str) ==
    IF date_str.fmt = "" THEN EmptyStr
    ELSE IF date_str.fmt \in formats THEN IsoString(date_str.d, date_str.t)
    ELSE date_str

msc_parse_date(date_str) ==
    ParseWith({"%d/%m/%Y, %H:%M", "%d/%m/%Y %H:%M", "%Y-%m-%d %H:%M:%S",
               "%d/%m/%Y", "%d-%m-%Y"}, date_str)

cbdr_parse_date(date_str) ==
    ParseWith({"%d/%m/%Y, %H:%M", "%d/%m/%Y %H:%M", "%Y-%m-%d %H:%M:%S",
               "%d/%m/%Y"}, date_str)

vx_parse_date(date_str) ==
    ParseWith({"%d/%m/%Y, %H:%M", "%d/%m/%Y %H:%M", "%Y-%m-%d %H:%M:%S",
               "%d/%m/%Y"}, date_str)

nc_parse_date(date_str) ==
    ParseWith({"%d/%m/%Y %H:%M", "%d/%m/%Y", "%Y-%m-%d %H:%M:%S"}, date_str)

\* the weekday prefix "Thu <digit>" is removed by the first re.sub
smc_StripWeekday(date_str) ==
    IF date_str.fmt = "Thu 2, %d/%m/%Y, %H:%M"
    THEN [date_str EXCEPT !.fmt = "%d/%m/%Y, %H:%M"]
    ELSE date_str

smc_parse_date(date_str) ==
    IF date_str.fmt = "" THEN EmptyStr
    ELSE ParseWith({"%d/%m/%Y, %H:%M", "%d/%m/%Y %H:%M", "%Y-%m-%d %H:%M:%S",
                    "%d/%m/%Y", "%d-%m-%Y", "%H:%M %d/%m/%Y"},
                   smc_StripWeekday(date_str))

\* the fixed crawler: six formats, then the d/m/Y regex (midnight), then ""
fix_parse_date(date_str) ==
    IF date_str.fmt = "" THEN EmptyStr
    ELSE IF date_str.fmt \in {"%d/%m/%Y, %H:%M", "%d/%m/%Y %H:%M", "%Y-%m-%d %H:%M:%S",
                              "%d/%m/%Y", "%d-%m-%Y", "%Y-%m-%d"}
         THEN IsoString(date_str.d, date_str.t)
    ELSE IF date_str.fmt \in {"%H:%M %d/%m/%Y", "Thu 2, %d/%m/%Y, %H:%M"}
         THEN IsoString(date_str.d, <<0, 0>>)
    ELSE EmptyStr

\* int(date_str[:4]) of a text of at least 10 characters; 0 stands for None
fix_extract_year_from_date(date_str) ==
    IF date_str.fmt = "" THEN 0
    ELSE IF LenGE10(date_str) /\ IsoPrefix(date_str) THEN date_str.d[1]
    ELSE 0

\* mutant: the article's time of day takes part in the comparison
smc_is_date_in_range_with_time(date_str) ==
    IF date_str.fmt = "" THEN TRUE
    ELSE LET parsed == smc_parse_date(date_str) IN
         IF parsed.fmt = "" \/ ~LenGE10(parsed) THEN TRUE
         ELSE IF ~IsoPrefix(parsed) THEN TRUE
         ELSE /\ TupleLE(Midnight(START_DATE), parsed.d \o parsed.t)
              /\ TupleLE(parsed.d \o parsed.t, Midnight(END_DATE))

\* stock_market_crawler_v2.is_date_in_range
smc_is_date_in_range(date_str) ==
    IF date_str.fmt = "" THEN TRUE
    ELSE LET parsed == smc_parse_date(date_str) IN
         IF parsed.fmt = "" \/ ~LenGE10(parsed) THEN TRUE
         ELSE IF ~IsoPrefix(parsed) THEN TRUE       \* strptime raises: kept
         ELSE /\ TupleLE(Midnight(START_DATE), Midnight(parsed.d))
              /\ TupleLE(Midnight(parsed.d), Midnight(END_DATE))

-----------------------------------------------------------------------------
(* String operations the crawlers apply to a parsed date *)

NoDate == <<0, 0, 0>>
Garbage == [fmt |-> "garbage", d |-> NoDate, t |-> <<0, 0>>]
IsoDateText(d) == [fmt |-> "%Y-%m-%d", d |-> d, t |-> <<0, 0>>]

\* s[:10] of a text of at least 10 characters
Prefix10(s) ==
    IF IsoPrefix(s) THEN IsoDateText(s.d)
    ELSE IF s.fmt \in {"%d/%m/%Y, %H:%M", "%d/%m/%Y %H:%M", "%d/%m/%Y"}
         THEN [fmt |-> "%d/%m/%Y", d |-> s.d, t |-> <<0, 0>>]
    ELSE IF s.fmt = "%d-%m-%Y" THEN s
    ELSE Garbage

\* s.split(' ', 1)[0] of a text that contains a blank
FirstWord(s) ==
    IF s.fmt \in {"iso", "%Y-%m-%d %H:%M:%S"} THEN IsoDateText(s.d)
    ELSE IF s.fmt = "%d/%m/%Y %H:%M" THEN [fmt |-> "%d/%m/%Y", d |-> s.d, t |-> <<0, 0>>]
    ELSE Garbage

\* the date/time split of process_article (multi_source_crawler 1235-1246 and
\* its copies): the date column of the record
SplitDatePart(parsed) ==
    IF parsed.fmt # "" /\ LenGE10(parsed)
    THEN (IF HasSpace(parsed) THEN FirstWord(parsed) ELSE Prefix10(parsed))
    ELSE parsed

\* crawler_by_date_range.extract_date_only
cbdr_extract_date_only(date_str) ==
    IF date_str.fmt = "" THEN EmptyStr
    ELSE IF LenGE10(date_str) THEN Prefix10(date_str)
    ELSE date_str

-----------------------------------------------------------------------------
(* Articles.  What extract_content returns for a URL, reduced to what the  *)
(* checks of process_article read:                                         *)
(*   content_len  len(content); 0 also stands for content None or ""       *)
(*   has_title    the title is non-empty                                   *)
(*   date_str     the date text of the page                                *)
(*   mentions     tickers whose pattern occurs in title + " " + content    *)
(*   head         tickers that occur in title + " " + content[:1500]       *)
(*   exclude      an EXCLUDE_KEYWORDS entry occurs in the head             *)
(*   common       number of FINANCIAL_KEYWORDS["common"] entries matched   *)
(*   specific     per ticker, FINANCIAL_KEYWORDS[ticker] entries matched   *)
(*   money        a large-currency-amount pattern occurs                   *)

msc_TICKERS == <<"BID", "FPT">>
fix_TICKERS == <<"ACB", "BID", "VCB", "MBB", "FPT">>
nc_TICKERS == <<"ACB", "BID", "VCB", "MBB", "FPT">>

SeqRange(s) == {s[i] : i \in 1..Len(s)}

MIN_CONTENT_LEN == 100
fix_MIN_CONTENT_LEN == 50

\* a record of the output (the title and time columns are left out)
Record(date, ticker, url, a) ==
    [date |-> date, ticker |-> ticker, source |-> url, content_len |-> a.content_len]

\* multi_source_crawler.check_financial_relevance: is_relevant
msc_check_financial_relevance(a, ticker) ==
    IF a.exclude THEN FALSE
    ELSE LET s0 == a.common
                   + (IF ticker \in DOMAIN a.specific THEN 2 * a.specific[ticker] ELSE 0)
                   + (IF a.money THEN 1 ELSE 0)
             score == IF ticker \notin a.head THEN (s0 * 3) \div 10 ELSE s0
         IN  score >= 2

msc_detect_ticker_in_content(a, ticker) ==
    IF ticker \notin a.mentions THEN FALSE
    ELSE msc_check_financial_relevance(a, ticker)

\* "if not content or len(content) < 100"
msc_content_rejected(a) == a.content_len = 0 \/ a.content_len < MIN_CONTENT_LEN

\* multi_source_crawler.process_article after the seen-URL check:
\* <<>> stands for None, <<r>> for the record r
msc_process_article(a, url, ticker) ==
    IF msc_content_rejected(a) THEN <<>>
    ELSE IF ~msc_detect_ticker_in_content(a, ticker) THEN <<>>
    ELSE <<Record(SplitDatePart(msc_parse_date(a.date_str)), ticker, url, a)>>

\* mutant: only the empty body is rejected
fix_content_rejected_only_empty(a) == a.content_len = 0

fix_content_rejected(a) == a.content_len = 0 \/ a.content_len < fix_MIN_CONTENT_LEN

\* the year check of the fixed crawler's process_article (lines 529-544)
fix_date_accepted(parsed, target_year) ==
    /\ parsed.fmt # "" /\ LenGE10(parsed)
    /\ fix_extract_year_from_date(parsed) # 0
    /\ fix_extract_year_from_date(parsed) = target_year

\* multi_source_crawler_fixed.process_article after the seen-URL check
fix_process_article(a, url, ticker, target_year) ==
    IF fix_content_rejected(a) THEN <<>>
    ELSE IF ticker \notin a.mentions THEN <<>>
    ELSE LET parsed == fix_parse_date(a.date_str) IN
         IF ~fix_date_accepted(parsed, target_year) THEN <<>>
         ELSE <<Record(SplitDatePart(parsed), ticker, url, a)>>

cbdr_content_rejected(a) == a.content_len = 0 \/ a.content_len < MIN_CONTENT_LEN

\* crawler_by_date_range.process_article after the seen-URL check;
\* target_date is the text "%Y-%m-%d" of the day being crawled
cbdr_process_article(a, url, ticker, target_date) ==
    IF cbdr_content_rejected(a) THEN <<>>
    ELSE IF ticker \notin a.mentions THEN <<>>
    ELSE LET parsed == cbdr_parse_date(a.date_str)
             article_date == cbdr_extract_date_only(parsed)
         IN  IF article_date # target_date THEN <<>>
             ELSE <<Record(IF parsed.fmt # "" /\ HasSpace(parsed)
                           THEN FirstWord(parsed) ELSE article_date,
                           ticker, url, a)>>

\* one record per mentioned ticker, in TICKERS order
RECURSIVE FanOut(_, _, _, _)
FanOut(tickers, date, url, a) ==
    IF tickers = <<>> THEN <<>>
    ELSE (IF Head(tickers) \in a.mentions
          THEN <<Record(date, Head(tickers), url, a)>> ELSE <<>>)
         \o FanOut(Tail(tickers), date, url, a)

nc_content_rejected(a) == a.content_len = 0 \/ a.content_len < MIN_CONTENT_LEN

\* news_crawler.process_article after the seen-URL check (get_article_content
\* hands over the parsed date)
nc_process_article(a, url) ==
    IF nc_content_rejected(a) THEN <<>>
    ELSE FanOut(nc_TICKERS, SplitDatePart(nc_parse_date(a.date_str)), url, a)

vx_content_rejected(a) == a.content_len = 0 \/ a.content_len < MIN_CONTENT_LEN

\* vnexpress_crawler.process_article after the seen-URL check
vx_process_article(a, url) ==
    IF vx_content_rejected(a) THEN <<>>
    ELSE FanOut(nc_TICKERS, SplitDatePart(vx_parse_date(a.date_str)), url, a)

smc_content_rejected(a) == a.content_len = 0 \/ a.content_len < MIN_CONTENT_LEN

\* contains_target_ticker: the tickers matched, BIDV counting as BID
smc_matched(a) == a.mentions \cap {"FPT", "BID"}

\* stock_market_crawler_v2.process_article after the seen-URL check: the
\* record, and whether the two counters were incremented
smc_passes_checks(a) == ~smc_content_rejected(a) /\ smc_is_date_in_range(a.date_str)

smc_process_article(a, url) ==
    IF ~smc_passes_checks(a) THEN <<>>
    ELSE IF smc_matched(a) = {} THEN <<>>
    ELSE <<Record(smc_parse_date(a.date_str), smc_matched(a), url, a)>>

-----------------------------------------------------------------------------
(* Inputs *)

URLS == {"u1", "u2"}

Times == {<<0, 0>>, <<10, 30>>, <<23, 59>>}

\* the window's two ends, the days next to them, and days well inside/outside
BoundaryDates ==
    {PrevDay(START_DATE), START_DATE, NextDay(START_DATE), <<2020, 2, 29>>,
     PrevDay(END_DATE), END_DATE, NextDay(END_DATE), <<2025, 12, 31>>, <<2026, 1, 1>>}

AllDateStrs ==
    {EmptyStr}
    \cup [fmt : TimedLayouts, d : BoundaryDates, t : Times]
    \cup [fmt : DateLayouts, d : BoundaryDates, t : {<<0, 0>>}]
    \cup [fmt : JunkLayouts, d : {NoDate}, t : {<<0, 0>>}]

\* the date texts the article checks are exercised with
ArticleDateStrs ==
    {EmptyStr,
     [fmt |-> "%d/%m/%Y, %H:%M", d |-> END_DATE, t |-> <<10, 30>>],
     [fmt |-> "%d/%m/%Y", d |-> START_DATE, t |-> <<0, 0>>],
     [fmt |-> "%Y-%m-%d %H:%M:%S", d |-> NextDay(END_DATE), t |-> <<0, 0>>],
     [fmt |-> "Thu 2, %d/%m/%Y, %H:%M", d |-> <<2025, 12, 31>>, t |-> <<23, 59>>],
     [fmt |-> "%Y-%m-%dT%H:%M:%S", d |-> PrevDay(START_DATE), t |-> <<10, 30>>],
     [fmt |-> "junk-long", d |-> NoDate, t |-> <<0, 0>>]}

ContentLens == {0, 10, 49, 50, 99, 100, 1600}

\* <<mentions, head>>: head is a subset of mentions
MentionPairs ==
    {<<{}, {}>>, <<{"BID"}, {"BID"}>>, <<{"BID"}, {}>>, <<{"FPT", "BID"}, {"FPT"}>>,
     <<{"ACB"}, {"ACB"}>>}

NoSpecific == [t \in {"BID", "FPT"} |-> 0]

\* articles without financial vocabulary
PlainArticles ==
    {[content_len |-> c, has_title |-> h, date_str |-> ds, mentions |-> mp[1],
      head |-> mp[2], exclude |-> FALSE, common |-> 0, specific |-> NoSpecific,
      money |-> FALSE] :
        c \in ContentLens, h \in BOOLEAN, ds \in ArticleDateStrs, mp \in MentionPairs}

\* articles with every combination of the relevance inputs
FinancialArticles ==
    {[content_len |-> c, has_title |-> TRUE, date_str |-> EmptyStr, mentions |-> mp[1],
      head |-> mp[2], exclude |-> x, common |-> k, specific |-> sp, money |-> m] :
        c \in {49, 99, 100}, mp \in MentionPairs, x \in BOOLEAN, k \in 0..3,
        sp \in [{"BID", "FPT"} -> 0..1], m \in BOOLEAN}

\* the articles an orchestrator's extraction can return: too short or long
\* enough, naming no ticker, one or two, dated inside the window, after it in
\* its last year, or undated
CrawlDateStrs ==
    {EmptyStr,
     [fmt |-> "%d/%m/%Y, %H:%M", d |-> END_DATE, t |-> <<10, 30>>],
     [fmt |-> "%Y-%m-%d %H:%M:%S", d |-> <<2025, 12, 31>>, t |-> <<0, 0>>]}

CrawlArticles ==
    {[content_len |-> c, has_title |-> TRUE, date_str |-> ds, mentions |-> m,
      head |-> m, exclude |-> FALSE, common |-> 3, specific |-> NoSpecific,
      money |-> TRUE] :
        c \in {99, 100}, ds \in CrawlDateStrs, m \in {{}, {"BID"}, {"BID", "FPT"}}}

\* those dated on the last day of the window
DatedArticles == {a \in CrawlArticles : a.date_str.d = END_DATE}

\* the URLs a link collector can return
UrlNames == <<"u1", "u2", "u3", "u4", "u5">>

\* the link list of one cell, where the collectors append every hit of every
\* query and page without a duplicate check: a URL can occur several times
LinkLists == UNION {[1..k -> URLS] : k \in 0..MaxLinks}

-----------------------------------------------------------------------------
(* Idle values of the variables a specification does not use *)

NoFile == [exists |-> FALSE, lines |-> <<>>]

IdleCrawl ==
    /\ cells_run = 0 /\ all_links = <<>> /\ tasks = <<>>
    /\ seen_urls = {} /\ batch = <<>> /\ current_batch = <<>> /\ csv = NoFile
    /\ total_records = 0 /\ extract_calls = [u \in SeqRange(UrlNames) |-> 0]
    /\ appended = <<>> /\ flushes = <<>> /\ interrupted = FALSE

IdleLinks == lk = [query |-> 0]

IdleLocals == locals = [fn |-> ""]

IdleExt == exit_status = <<>> /\ printed = <<>> /\ IdleLocals

-----------------------------------------------------------------------------
(* SpecArticle: one call of a per-article function on one input *)

ArticleProgs == {"msc", "fix", "cbdr", "nc", "vx", "smc"}

\* the (year or day, ticker) arguments of the call
CallArgs(p) ==
    IF p = "msc" THEN {<<2025, t>> : t \in SeqRange(msc_TICKERS)}
    ELSE IF p = "fix" THEN {<<y, t>> : y \in {2015, 2025}, t \in {"ACB", "BID", "FPT"}}
    ELSE IF p = "cbdr" THEN {<<d, t>> : d \in {START_DATE, END_DATE}, t \in {"ACB", "BID"}}
    ELSE IF p = "check_financial_relevance" THEN {<<0, t>> : t \in {"ACB", "BID", "FPT"}}
    ELSE {<<0, "">>}

InitArticle ==
    /\ prog \in ArticleProgs \cup {"is_date_in_range", "check_financial_relevance"}
    /\ pc = "call"
    /\ IF prog = "is_date_in_range"
       THEN article \in [content_len : {100}, has_title : {TRUE}, date_str : AllDateStrs,
                         mentions : {{}}, head : {{}}, exclude : {FALSE}, common : {0},
                         specific : {NoSpecific}, money : {FALSE}]
       ELSE article \in (IF prog = "msc" THEN PlainArticles \cup FinancialArticles
                         ELSE IF prog = "check_financial_relevance"
                         THEN FinancialArticles
                         ELSE PlainArticles)
    /\ result = <<>>
    /\ IdleLinks
    /\ IdleExt
    /\ IdleCrawl
    /\ cell \in CallArgs(prog)


Returned(r) ==
    /\ pc = "call"
    /\ pc' = "returned"
    /\ result' = r
    /\ UNCHANGED <<extVars, prog, article, lk, crawlVars>>

Call_msc_process_article ==
    /\ prog = "msc"
    /\ Returned(msc_process_article(article, "u1", cell[2]))

Call_fix_process_article ==
    /\ prog = "fix"
    /\ Returned(fix_process_article(article, "u1", cell[2], cell[1]))

Call_cbdr_process_article ==
    /\ prog = "cbdr"
    /\ Returned(cbdr_process_article(article, "u1", cell[2], IsoDateText(cell[1])))

Call_nc_process_article ==
    /\ prog = "nc"
    /\ Returned(nc_process_article(article, "u1"))

Call_vx_process_article ==
    /\ prog = "vx"
    /\ Returned(vx_process_article(article, "u1"))

Call_smc_process_article ==
    /\ prog = "smc"
    /\ Returned(smc_process_article(article, "u1"))

Call_smc_is_date_in_range ==
    /\ prog = "is_date_in_range"
    /\ Returned(smc_is_date_in_range(article.date_str))

Call_msc_check_financial_relevance ==
    /\ prog = "check_financial_relevance"
    /\ Returned(msc_check_financial_relevance(article, cell[2]))

NextArticle ==
    \/ Call_msc_process_article
    \/ Call_fix_process_article
    \/ Call_cbdr_process_article
    \/ Call_nc_process_article
    \/ Call_vx_process_article
    \/ Call_smc_process_article
    \/ Call_smc_is_date_in_range
    \/ Call_msc_check_financial_relevance

SpecArticle == InitArticle /\ [][NextArticle]_vars

\* the layouts that show a date
ShowsDate(s) == s.fmt \in TimedLayouts \cup DateLayouts

\* C8: is_date_in_range accepts an article dated exactly START_DATE or exactly
\* END_DATE and rejects one dated the day before START_DATE or the day after
\* END_DATE, whatever the layout and the time of day of its date text; and
\* process_article returns no record for an article it rejects.
C8_DateWindowBoundary ==
    /\ (prog = "is_date_in_range" /\ pc = "returned" /\ ShowsDate(article.date_str)) =>
          /\ article.date_str.d \in {START_DATE, END_DATE} => result = TRUE
          /\ article.date_str.d \in {PrevDay(START_DATE), NextDay(END_DATE)}
                => result = FALSE
    /\ (prog = "smc" /\ pc = "returned" /\ ShowsDate(article.date_str)
        /\ article.date_str.d \in {PrevDay(START_DATE), NextDay(END_DATE)}) =>
          result = <<>>

\* C8 witness: END_DATE at 23:59 was accepted
C8_Witness ==
    /\ prog = "is_date_in_range" /\ pc = "returned"
    /\ article.date_str.d = END_DATE /\ article.date_str.t = <<23, 59>>
    /\ result = TRUE

MinLenOf(p) == IF p = "fix" THEN 50 ELSE 100

\* C9: in every crawler, process_article returns no record for an article whose
\* body is empty or shorter than the minimum length (100; 50 in the fixed
\* crawler), whatever its title, date and ticker mentions.
C9_MinimumLengthRejection ==
    (prog \in ArticleProgs /\ pc = "returned" /\ article.content_len < MinLenOf(prog))
        => result = <<>>

\* C9 witness: a 49-character body with a title, the ticker in it and a date of
\* the target year was rejected by the fixed crawler
C9_Witness ==
    /\ prog = "fix" /\ pc = "returned"
    /\ article.content_len = 49 /\ article.has_title
    /\ cell[2] \in article.mentions
    /\ fix_date_accepted(fix_parse_date(article.date_str), cell[1])
    /\ result = <<>>

\* C26 (as claimed): check_financial_relevance accepts an article (without an
\* excluded word) exactly when its score is at least 2, the score being the
\* matched common keywords + 2 x the matched keywords of the ticker + 1 for a
\* large currency amount, halved when the ticker is absent from the text.
C26_RelevanceScoreHalvedWithoutTicker ==
    (prog = "check_financial_relevance" /\ pc = "returned" /\ ~article.exclude) =>
        LET s0 == article.common
                  + (IF cell[2] \in DOMAIN article.specific
                     THEN 2 * article.specific[cell[2]] ELSE 0)
                  + (IF article.money THEN 1 ELSE 0)
            twice == IF cell[2] \in article.head THEN 2 * s0 ELSE s0
        IN  result = (twice >= 4)

-----------------------------------------------------------------------------
(* The output file: whether the path exists and the lines written to it *)

Header == <<"header">>
Row(r) == <<"row", r>>

RECURSIVE Rows(_)
Rows(b) == IF b = <<>> THEN <<>> ELSE <<Row(Head(b))>> \o Rows(Tail(b))

RowsOf(f) == SelectSeq(f.lines, LAMBDA l : l # Header)
HeaderCount(f) == Len(SelectSeq(f.lines, LAMBDA l : l = Header))

\* multi_source_crawler.save_batch_to_csv (also stock_market_crawler_v2's, which
\* has no write_header argument): always mode 'a'
msc_save_batch_to_csv(f, b, write_header) ==
    LET file_exists == f.exists IN
    [exists |-> TRUE,
     lines |-> f.lines
               \o (IF ~file_exists \/ write_header THEN <<Header>> ELSE <<>>)
               \o Rows(b)]

\* save_batch_to_csv of news_crawler, vnexpress_crawler, the fixed crawler and
\* crawler_by_date_range.save_to_csv: mode 'w' with the header, else 'a'
nc_save_batch_to_csv(f, b, write_header) ==
    IF write_header
    THEN [exists |-> TRUE, lines |-> <<Header>> \o Rows(b)]
    ELSE [exists |-> TRUE, lines |-> f.lines \o Rows(b)]

-----------------------------------------------------------------------------
(* SpecCsv: calls of multi_source_crawler.save_batch_to_csv on one path *)

CsvBatches ==
    {<<>>} \cup {<<t>> : t \in SeqRange(msc_TICKERS)}
           \cup {<<t, u>> : t \in SeqRange(msc_TICKERS), u \in SeqRange(msc_TICKERS)}

InitCsv ==
    /\ prog = "csv"
    /\ pc = "run"
    /\ article = <<>>
    /\ result = <<>>
    /\ IdleLinks
    /\ IdleExt
    /\ IdleCrawl
    /\ cell = <<0, 0>>

\* the calls of crawl_multi_source (lines 1370 and 1384): write_header omitted
Csv_save_from_crawl ==
    /\ prog = "csv"
    /\ Len(csv.lines) < MaxFileLines
    /\ \E b \in CsvBatches \ {<<>>} : csv' = msc_save_batch_to_csv(csv, b, FALSE)
    /\ UNCHANGED <<extVars, prog, pc, article, result, lk, cell, cells_run, all_links, tasks,
                   seen_urls, batch, current_batch, total_records, extract_calls,
                   appended, flushes, interrupted>>

\* the call of test_separate_files (line 66): write_header=True
Csv_save_from_test ==
    /\ prog = "csv"
    /\ Len(csv.lines) < MaxFileLines
    /\ \E b \in CsvBatches \ {<<>>} : csv' = msc_save_batch_to_csv(csv, b, TRUE)
    /\ UNCHANGED <<extVars, prog, pc, article, result, lk, cell, cells_run, all_links, tasks,
                   seen_urls, batch, current_batch, total_records, extract_calls,
                   appended, flushes, interrupted>>

NextCsv == Csv_save_from_crawl \/ Csv_save_from_test

SpecCsv == InitCsv /\ [][NextCsv]_vars

\* C10 (as claimed): after any sequence of save_batch_to_csv calls on one
\* path, write_header=True included, the file holds exactly one header row and
\* it is the first line.
C10_SingleHeaderFirst ==
    (prog = "csv" /\ csv.exists) =>
        /\ Len(csv.lines) >= 1 /\ csv.lines[1] = Header
        /\ HeaderCount(csv) = 1

-----------------------------------------------------------------------------
(* SpecLinks: get_all_article_links of news_crawler and vnexpress_crawler.  *)
(* lk holds the function's locals: year, query (index into SEARCH_QUERIES), *)
(* page (the next page of the for loop), consecutive_empty, all_links, and  *)
(* the history hist: for each page requested for the current query, the     *)
(* number of links it yielded that were not yet in all_links.               *)
(* A run is followed through its first MaxQueries queries.                  *)

nc_EMPTY_LIMIT == 3
vx_EMPTY_LIMIT == 3

nc_NUM_QUERIES == 4
vx_NUM_QUERIES == 8

\* what one search-page request can come back with
PageResponses ==
    {[kind |-> "non200", links |-> {}], [kind |-> "exception", links |-> {}]}
    \cup [kind : {"ok"}, links : SUBSET URLS]

\* mutant: the counter is reset by any page that shows links, new or not
nc_consecutive_empty_any_link(ce, resp, links) ==
    IF resp.kind # "ok" THEN ce + 1
    ELSE IF resp.links = {} THEN ce + 1 ELSE 0

\* news_crawler lines 95-130: consecutive_empty after a page
nc_consecutive_empty_after(ce, resp, links) ==
    IF resp.kind # "ok" THEN ce + 1
    ELSE LET new_count == Cardinality(resp.links \ links) IN
         IF new_count = 0 THEN ce + 1 ELSE 0

\* vnexpress_crawler lines 100-142: consecutive_empty after a page
vx_consecutive_empty_after(ce, resp, links) ==
    IF resp.kind # "ok" THEN ce + 1
    ELSE LET new_count == Cardinality(resp.links \ links) IN
         IF new_count = 0 THEN ce + 1 ELSE 0

\* the for loop over pages is left: range exhausted or "consecutive_empty >= 3"
nc_stop_paging(page, ce, max_pages) == page > max_pages \/ ce >= nc_EMPTY_LIMIT
vx_stop_paging(page, ce, max_pages) == page > max_pages \/ ce >= vx_EMPTY_LIMIT

InitLinks ==
    /\ prog \in {"nc_links", "vx_links"}
    /\ pc = "paging"
    /\ lk = [year |-> START_DATE[1], query |-> 1, page |-> 1, consecutive_empty |-> 0,
             all_links |-> {}, hist |-> <<>>, queries_run |-> 1]
    /\ article = <<>>
    /\ result = <<>>
    /\ IdleCrawl
    /\ IdleExt
    /\ cell = <<0, 0>>

\* one iteration of "for page in range(1, max_pages + 1)": the request and
\* everything the body does with its response
nc_Page ==
    /\ prog = "nc_links" /\ pc = "paging"
    /\ ~nc_stop_paging(lk.page, lk.consecutive_empty, MaxPages)
    /\ \E resp \in PageResponses :
         lk' = [lk EXCEPT
                  !.consecutive_empty =
                      nc_consecutive_empty_after(lk.consecutive_empty, resp, lk.all_links),
                  !.all_links = lk.all_links \cup resp.links,
                  !.hist = Append(lk.hist, Cardinality(resp.links \ lk.all_links)),
                  !.page = lk.page + 1]
    /\ UNCHANGED <<extVars, prog, pc, article, result, crawlVars>>

vx_Page ==
    /\ prog = "vx_links" /\ pc = "paging"
    /\ ~vx_stop_paging(lk.page, lk.consecutive_empty, MaxPages)
    /\ \E resp \in PageResponses :
         lk' = [lk EXCEPT
                  !.consecutive_empty =
                      vx_consecutive_empty_after(lk.consecutive_empty, resp, lk.all_links),
                  !.all_links = lk.all_links \cup resp.links,
                  !.hist = Append(lk.hist, Cardinality(resp.links \ lk.all_links)),
                  !.page = lk.page + 1]
    /\ UNCHANGED <<extVars, prog, pc, article, result, crawlVars>>

\* the locals at the start of the next query, of this year or of the next
NextQueryLocals(num_queries) ==
    [lk EXCEPT
       !.year = IF lk.query = num_queries THEN lk.year + 1 ELSE lk.year,
       !.query = IF lk.query = num_queries THEN 1 ELSE lk.query + 1,
       !.page = 1, !.consecutive_empty = 0, !.hist = <<>>,
       !.queries_run = lk.queries_run + 1]

\* the page loop ends and the next query starts
nc_NextQuery ==
    /\ prog = "nc_links" /\ pc = "paging"
    /\ nc_stop_paging(lk.page, lk.consecutive_empty, MaxPages)
    /\ lk.queries_run < MaxQueries
    /\ ~(lk.year = END_DATE[1] /\ lk.query = nc_NUM_QUERIES)
    /\ lk' = NextQueryLocals(nc_NUM_QUERIES)
    /\ UNCHANGED <<extVars, prog, pc, article, result, crawlVars>>

vx_NextQuery ==
    /\ prog = "vx_links" /\ pc = "paging"
    /\ vx_stop_paging(lk.page, lk.consecutive_empty, MaxPages)
    /\ lk.queries_run < MaxQueries
    /\ ~(lk.year = END_DATE[1] /\ lk.query = vx_NUM_QUERIES)
    /\ lk' = NextQueryLocals(vx_NUM_QUERIES)
    /\ UNCHANGED <<extVars, prog, pc, article, result, crawlVars>>

NextLinks == nc_Page \/ vx_Page \/ nc_NextQuery \/ vx_NextQuery

SpecLinks == InitLinks /\ [][NextLinks]_vars

\* C6: for every query, no page is requested after 3 consecutive pages that
\* each yielded no link outside the collected set, and at most max_pages pages
\* are requested.
C6_PaginationTermination ==
    prog \in {"nc_links", "vx_links"} =>
        /\ Len(lk.hist) <= MaxPages
        /\ \A i \in 1..Len(lk.hist) :
              i > 3 => ~(lk.hist[i - 3] = 0 /\ lk.hist[i - 2] = 0 /\ lk.hist[i - 1] = 0)

\* C6 witness: three pages in a row showed only links already collected (the
\* third non-empty), after a page with a new link, and paging stopped before
\* max_pages
C6_Witness ==
    /\ prog = "nc_links" /\ Len(lk.hist) = 4 /\ Len(lk.hist) < MaxPages
    /\ lk.hist[1] > 0 /\ lk.hist[2] = 0 /\ lk.hist[3] = 0 /\ lk.hist[4] = 0
    /\ lk.all_links # {}
    /\ nc_stop_paging(lk.page, lk.consecutive_empty, MaxPages)

-----------------------------------------------------------------------------
(* The thread pool.  A future is [url, st, res]: queued, passed (its worker  *)
(* is past the seen-URL check), done (it returned res) or consumed (the main *)
(* thread took it from as_completed).                                        *)

Submitted(links) ==
    [i \in 1..Len(links) |-> [url |-> links[i], st |-> "queued", res |-> <<>>]]

\* workers inside process_article
Running == Cardinality({i \in DOMAIN tasks : tasks[i].st = "passed"})

\* the future a free worker takes: the oldest one still queued
IsNextQueued(i) ==
    /\ i \in DOMAIN tasks /\ tasks[i].st = "queued"
    /\ \A j \in 1..(i - 1) : tasks[j].st # "queued"
    /\ Running < MAX_WORKERS

\* the with-block of the pool is left: as_completed has handed over every
\* future (the second definition), with the mutant that leaves after the first
SomeConsumed == \E i \in DOMAIN tasks : tasks[i].st = "consumed"
AllConsumed == \A i \in DOMAIN tasks : tasks[i].st = "consumed"

\* every record the futures returned, as a set
Returns == UNION {SeqRange(tasks[i].res) : i \in DOMAIN tasks}

Occurrences(seq, x) == Cardinality({k \in 1..Len(seq) : seq[k] = x})

RECURSIVE SumSeq(_)
SumSeq(seq) == IF seq = <<>> THEN 0 ELSE Head(seq) + SumSeq(Tail(seq))

-----------------------------------------------------------------------------
(* SpecNews: news_crawler.crawl_news *)

\* the link collector returns a set: its URLs are distinct
nc_LinkLists == {[i \in 1..k |-> UrlNames[i]] : k \in 0..MaxLinks}

\* "if len(batch) >= BATCH_SIZE" with the mutant "len(batch) > BATCH_SIZE"
nc_batch_full_late(b) == Len(b) > BATCH_SIZE
nc_batch_full(b) == Len(b) >= BATCH_SIZE

\* "batch = []" after a flush with the mutant that keeps the flushed records
nc_batch_kept(b) == b
nc_batch_after_flush(b) == <<>>

\* the loop "for result in results" over one future's records; s holds the
\* locals batch and total_records, the file and the history
RECURSIVE nc_consume(_, _)
nc_consume(results, s) ==
    IF results = <<>> THEN s
    ELSE LET b == Append(s.batch, Head(results))
             full == nc_batch_full(b)
         IN  nc_consume(Tail(results),
                [batch |-> IF full THEN nc_batch_after_flush(b) ELSE b,
                 csv |-> IF full THEN nc_save_batch_to_csv(s.csv, b, FALSE) ELSE s.csv,
                 total_records |-> s.total_records + 1,
                 appended |-> Append(s.appended, Head(results)),
                 flushes |-> IF full THEN Append(s.flushes, Len(b)) ELSE s.flushes])

InitNews ==
    /\ prog = "news"
    /\ pc = "start"
    /\ article = <<>>
    /\ result = <<>>
    /\ IdleLinks
    /\ IdleExt
    /\ IdleCrawl
    /\ cell = <<0, 0>>

\* crawl_news up to the submission of the futures: the header is written, the
\* links are collected, and without links the function returns
nc_Start ==
    /\ prog = "news" /\ pc = "start"
    /\ csv' = nc_save_batch_to_csv(csv, <<>>, TRUE)
    /\ \E links \in nc_LinkLists :
         /\ all_links' = links
         /\ tasks' = Submitted(links)
         /\ pc' = IF links = <<>> THEN "done" ELSE "pool"
    /\ UNCHANGED <<extVars, prog, article, result, lk, cell, cells_run, seen_urls, batch,
                   current_batch, total_records, extract_calls, appended, flushes,
                   interrupted>>

\* a worker starts process_article: "if url in seen_urls: return []"
nc_Worker_check ==
    /\ prog = "news" /\ pc = "pool"
    /\ \E i \in DOMAIN tasks :
         /\ IsNextQueued(i)
         /\ tasks' = [tasks EXCEPT ![i].st =
                         IF tasks[i].url \in seen_urls THEN "done" ELSE "passed"]
    /\ UNCHANGED <<extVars, prog, pc, article, result, lk, cell, cells_run, all_links,
                   seen_urls, batch, current_batch, csv, total_records,
                   extract_calls, appended, flushes, interrupted>>

\* the rest of process_article: seen_urls.add, the extraction, the records
nc_Worker_extract ==
    /\ prog = "news" /\ pc = "pool"
    /\ \E i \in DOMAIN tasks :
         /\ tasks[i].st = "passed"
         /\ seen_urls' = seen_urls \cup {tasks[i].url}
         /\ extract_calls' = [extract_calls EXCEPT ![tasks[i].url] = @ + 1]
         /\ \E a \in DatedArticles :
              tasks' = [tasks EXCEPT ![i].st = "done",
                                     ![i].res = nc_process_article(a, tasks[i].url)]
    /\ UNCHANGED <<extVars, prog, pc, article, result, lk, cell, cells_run, all_links,
                   batch, current_batch, csv, total_records, appended, flushes,
                   interrupted>>

\* one iteration of "for future in as_completed(futures)"
nc_Main_consume ==
    /\ prog = "news" /\ pc = "pool"
    /\ \E i \in DOMAIN tasks :
         /\ tasks[i].st = "done"
         /\ LET s == nc_consume(tasks[i].res,
                        [batch |-> batch, csv |-> csv, total_records |-> total_records,
                         appended |-> appended, flushes |-> flushes])
            IN  /\ batch' = s.batch
                /\ csv' = s.csv
                /\ total_records' = s.total_records
                /\ appended' = s.appended
                /\ flushes' = s.flushes
         /\ tasks' = [tasks EXCEPT ![i].st = "consumed"]
    /\ UNCHANGED <<extVars, prog, pc, article, result, lk, cell, cells_run, all_links,
                   seen_urls, current_batch, extract_calls, interrupted>>

\* after the pool: "if batch: save_batch_to_csv(batch, output_file)"
nc_Finish ==
    /\ prog = "news" /\ pc = "pool"
    /\ AllConsumed
    /\ pc' = "done"
    /\ csv' = IF batch # <<>> THEN nc_save_batch_to_csv(csv, batch, FALSE) ELSE csv
    /\ flushes' = IF batch # <<>> THEN Append(flushes, Len(batch)) ELSE flushes
    /\ UNCHANGED <<extVars, prog, article, result, lk, cell, cells_run, all_links, tasks,
                   seen_urls, batch, current_batch, total_records, extract_calls,
                   appended, interrupted>>

NextNews ==
    nc_Start \/ nc_Worker_check \/ nc_Worker_extract \/ nc_Main_consume \/ nc_Finish

SpecNews == InitNews /\ [][NextNews]_vars

\* C4: when crawl_news has returned, the file holds exactly n data rows for the
\* n records the futures returned, each record in exactly one row, and they
\* were written by ceil(n / BATCH_SIZE) non-empty flushes, all of BATCH_SIZE
\* rows except possibly the last.
C4_BatchedWriteExactlyOnce ==
    (prog = "news" /\ pc = "done") =>
        LET n == Cardinality(Returns)
            rows == RowsOf(csv)
        IN  /\ Len(rows) = n
            /\ \A r \in Returns : Occurrences(rows, Row(r)) = 1
            /\ Len(flushes) = (n + BATCH_SIZE - 1) \div BATCH_SIZE
            /\ \A j \in 1..Len(flushes) :
                  /\ flushes[j] \in 1..BATCH_SIZE
                  /\ j < Len(flushes) => flushes[j] = BATCH_SIZE
            /\ SumSeq(flushes) = n

\* C4 witness: a finished run whose record count is not a multiple of the
\* batch size: full flushes followed by a shorter last one
C4_Witness ==
    /\ prog = "news" /\ pc = "done"
    /\ Cardinality(Returns) > BATCH_SIZE
    /\ Cardinality(Returns) % BATCH_SIZE # 0
    /\ Len(flushes) >= 2
    /\ flushes[Len(flushes)] < BATCH_SIZE

\* C5: when crawl_news has returned and each of its W futures returned R
\* records, the file holds exactly W * R data rows, every returned record once,
\* whatever the order in which the futures completed.
C5_ConcurrentWorkersPersistAll ==
    (prog = "news" /\ pc = "done") =>
        \A R \in 0..Len(nc_TICKERS) :
            (\A i \in DOMAIN tasks : Len(tasks[i].res) = R) =>
                /\ Len(RowsOf(csv)) = Len(tasks) * R
                /\ \A i \in DOMAIN tasks : \A k \in 1..R :
                      Occurrences(RowsOf(csv), Row(tasks[i].res[k])) = 1

\* C5 witness: three futures returned two records each, the one submitted last
\* was consumed first, and the file holds the six rows
C5_Witness ==
    /\ prog = "news" /\ pc = "done"
    /\ Len(tasks) >= 3
    /\ \A i \in DOMAIN tasks : Len(tasks[i].res) = 2
    /\ appended[1].source = tasks[Len(tasks)].url
    /\ Len(RowsOf(csv)) = 2 * Len(tasks)

-----------------------------------------------------------------------------
(* SpecMSC: multi_source_crawler.crawl_multi_source *)

\* the order of "for year ...: for ticker in TICKERS"
\* locals holds ticker_year_count and the history of the run: trace, the
\* phases the cells went through (with the count at "done" and the number of
\* futures not yet finished when the pool was left); pending_failed,
\* how many leading records of batch were handed to a save_batch_to_csv call
\* that raised; resubmitted, how many such records were handed to a later call;
\* caught, how many futures of the cell raised in future.result().

\* what the main thread does with the other futures after future.result()
\* raised: "except Exception as e: pass" leaves them alone (the second
\* definition), with the mutant in which the exception ends the loop
msc_after_exception_abort(ts) == [i \in DOMAIN ts |-> [ts[i] EXCEPT !.st = "consumed"]]
msc_after_exception(ts) == ts

msc_NextCell(c) ==
    IF c[2] < Len(msc_TICKERS) THEN <<c[1], c[2] + 1>> ELSE <<c[1] + 1, 1>>

msc_LoopsDone(c) == c[1] > END_DATE[1]

InitMSC ==
    /\ prog = "msc_crawl"
    /\ pc = "start"
    /\ article = <<>>
    /\ result = <<>>
    /\ IdleLinks
    /\ exit_status = <<>> /\ printed = <<>>
    /\ locals = [fn |-> "crawl_multi_source", ticker_year_count |-> 0, caught |-> 0,
                 pending_failed |-> 0, resubmitted |-> 0, trace |-> <<>>]
    /\ cells_run = 0 /\ all_links = <<>> /\ tasks = <<>>
    /\ seen_urls = {} /\ batch = <<>> /\ current_batch = <<>>
    /\ csv \in {NoFile, [exists |-> TRUE, lines |-> <<Header>>]}
    /\ total_records = 0 /\ extract_calls = [u \in SeqRange(UrlNames) |-> 0]
    /\ appended = <<>> /\ flushes = <<>> /\ interrupted = FALSE
    /\ cell = <<START_DATE[1], 1>>

\* "if os.path.exists(output_file): os.remove(output_file)"
msc_Start ==
    /\ prog = "msc_crawl" /\ pc = "start"
    /\ csv' = NoFile
    /\ pc' = "collect"
    /\ UNCHANGED <<extVars, prog, article, result, lk, cell, cells_run, all_links, tasks,
                   seen_urls, batch, current_batch, total_records, extract_calls,
                   appended, flushes, interrupted>>

\* the head of one (year, ticker) iteration: the links of both sources are
\* collected; without links the loop continues, else the futures are submitted
msc_Collect ==
    /\ prog = "msc_crawl" /\ pc = "collect"
    /\ ~msc_LoopsDone(cell) /\ cells_run < MaxCells
    /\ cells_run' = cells_run + 1
    /\ \E links \in LinkLists :
         /\ all_links' = links
         /\ IF links = <<>>
            THEN /\ cell' = msc_NextCell(cell)
                 /\ locals' = [locals EXCEPT !.trace = @ \o
                        <<[cell |-> cell, ph |-> "collect", n |-> 0, unfinished |-> 0],
                          [cell |-> cell, ph |-> "done", n |-> 0, unfinished |-> 0]>>]
                 /\ UNCHANGED <<pc, tasks>>
            ELSE /\ tasks' = Submitted(links)
                 /\ pc' = "pool"
                 /\ locals' = [locals EXCEPT !.ticker_year_count = 0, !.caught = 0,
                        !.trace = @ \o
                        <<[cell |-> cell, ph |-> "collect", n |-> 0, unfinished |-> 0],
                          [cell |-> cell, ph |-> "process", n |-> 0, unfinished |-> 0]>>]
                 /\ UNCHANGED cell
    /\ UNCHANGED <<exit_status, printed, prog, article, result, lk, seen_urls, batch,
                   current_batch, csv, total_records, extract_calls, appended,
                   flushes, interrupted>>

\* a worker starts process_article: "if url in seen_urls: return None", read
\* without a lock
msc_Worker_check ==
    /\ prog = "msc_crawl" /\ pc = "pool"
    /\ \E i \in DOMAIN tasks :
         /\ IsNextQueued(i)
         /\ tasks' = [tasks EXCEPT ![i].st =
                         IF tasks[i].url \in seen_urls THEN "done" ELSE "passed"]
    /\ UNCHANGED <<extVars, prog, pc, article, result, lk, cell, cells_run, all_links,
                   seen_urls, batch, current_batch, csv, total_records,
                   extract_calls, appended, flushes, interrupted>>

\* the rest of process_article: seen_urls.add, extract_content, the checks;
\* the call returns, or an exception leaves it (the future is "raised")
msc_Worker_extract ==
    /\ prog = "msc_crawl" /\ pc = "pool"
    /\ \E i \in DOMAIN tasks :
         /\ tasks[i].st = "passed"
         /\ seen_urls' = seen_urls \cup {tasks[i].url}
         /\ extract_calls' = [extract_calls EXCEPT ![tasks[i].url] = @ + 1]
         /\ \/ \E a \in DatedArticles :
                 tasks' = [tasks EXCEPT
                             ![i].st = "done",
                             ![i].res = msc_process_article(a, tasks[i].url,
                                                            msc_TICKERS[cell[2]])]
            \/ tasks' = [tasks EXCEPT ![i].st = "raised"]
    /\ UNCHANGED <<extVars, prog, pc, article, result, lk, cell, cells_run, all_links,
                   batch, current_batch, csv, total_records, appended, flushes,
                   interrupted>>

\* one iteration of "for future in as_completed(futures)": future.result()
\* raises what the task raised, and save_batch_to_csv can raise (the file
\* cannot be opened); both land in "except Exception as e: pass"
msc_Main_consume ==
    /\ prog = "msc_crawl" /\ pc = "pool"
    /\ \E i \in DOMAIN tasks :
         /\ tasks[i].st \in {"done", "raised"}
         /\ tasks' = IF tasks[i].st = "raised"
                     THEN msc_after_exception([tasks EXCEPT ![i].st = "consumed"])
                     ELSE [tasks EXCEPT ![i].st = "consumed"]
         /\ IF tasks[i].st = "raised"
            THEN /\ locals' = [locals EXCEPT !.caught = @ + 1]
                 /\ UNCHANGED <<batch, csv, total_records, appended, flushes>>
            ELSE IF tasks[i].res = <<>>
            THEN UNCHANGED <<batch, csv, total_records, appended, flushes, locals>>
            ELSE LET b == Append(batch, tasks[i].res[1])
                     l == [locals EXCEPT !.ticker_year_count = @ + 1] IN
                 /\ total_records' = total_records + 1
                 /\ appended' = Append(appended, tasks[i].res[1])
                 /\ IF Len(b) >= BATCH_SIZE
                    THEN \E saved \in BOOLEAN :
                         IF saved
                         THEN /\ csv' = msc_save_batch_to_csv(csv, b, FALSE)
                              /\ flushes' = Append(flushes, Len(b))
                              /\ batch' = <<>>
                              /\ locals' = [l EXCEPT
                                    !.resubmitted = @ + l.pending_failed,
                                    !.pending_failed = 0]
                         ELSE /\ batch' = b
                              /\ locals' = [l EXCEPT
                                    !.resubmitted = @ + l.pending_failed,
                                    !.pending_failed = Len(b)]
                              /\ UNCHANGED <<csv, flushes>>
                    ELSE /\ batch' = b
                         /\ locals' = l
                         /\ UNCHANGED <<csv, flushes>>
    /\ UNCHANGED <<exit_status, printed, prog, pc, article, result, lk, cell, cells_run,
                   all_links, seen_urls, current_batch, extract_calls, interrupted>>

\* the with-block ends when every future was consumed; next iteration
msc_PoolExit ==
    /\ prog = "msc_crawl" /\ pc = "pool"
    /\ AllConsumed
    /\ pc' = "collect"
    /\ cell' = msc_NextCell(cell)
    /\ tasks' = <<>>
    /\ locals' = [locals EXCEPT !.trace = Append(@,
           [cell |-> cell, ph |-> "done", n |-> locals.ticker_year_count,
            unfinished |-> Cardinality({i \in DOMAIN tasks :
                                          tasks[i].st \in {"queued", "passed"}})])]
    /\ UNCHANGED <<exit_status, printed, prog, article, result, lk, cells_run,
                   all_links, seen_urls, batch, current_batch, csv, total_records,
                   extract_calls, appended, flushes, interrupted>>

\* after the loops (the cells beyond the modelled ones found no link):
\* "if batch: save_batch_to_csv(batch, output_file)"
msc_Finish ==
    /\ prog = "msc_crawl" /\ pc = "collect"
    /\ msc_LoopsDone(cell) \/ cells_run >= MaxCells
    /\ IF batch = <<>>
       THEN /\ pc' = "done"
            /\ UNCHANGED <<csv, flushes, locals>>
       ELSE \E saved \in BOOLEAN :
            /\ pc' = IF saved THEN "done" ELSE "raised"
            /\ csv' = IF saved THEN msc_save_batch_to_csv(csv, batch, FALSE) ELSE csv
            /\ flushes' = IF saved THEN Append(flushes, Len(batch)) ELSE flushes
            /\ locals' = [locals EXCEPT !.resubmitted = @ + locals.pending_failed]
    /\ UNCHANGED <<exit_status, printed, prog, article, result, lk, cell, cells_run,
                   all_links, tasks, seen_urls, batch, current_batch, total_records,
                   extract_calls, appended, interrupted>>

NextMSC ==
    \/ msc_Start \/ msc_Collect \/ msc_Worker_check \/ msc_Worker_extract
    \/ msc_Main_consume \/ msc_PoolExit \/ msc_Finish

SpecMSC == InitMSC /\ [][NextMSC]_vars

\* C1 (as claimed): during a run of crawl_multi_source, under every
\* interleaving of the workers, content extraction is invoked at most once for
\* each URL, however often the URL occurs in the link lists.
C1_ExtractionAtMostOncePerUrl ==
    prog = "msc_crawl" => \A u \in URLS : extract_calls[u] <= 1

\* C23 (as claimed): when save_batch_to_csv raises while a full batch is
\* flushed, no record of that batch is handed to save_batch_to_csv again by a
\* later flush of the run.
C23_FailedBatchNotResubmitted ==
    prog = "msc_crawl" => locals.resubmitted = 0

\* C24: when the pool of a cell has been consumed, every record returned by a
\* task of the cell was appended to the batch and counted, whether or not
\* other tasks of the cell raised, and the loop can go on to the next cell.
C24_TaskExceptionDoesNotAbortCell ==
    (prog = "msc_crawl" /\ pc = "pool" /\ AllConsumed) =>
        LET returned == {i \in DOMAIN tasks : tasks[i].res # <<>>}
            n == Cardinality(returned)
        IN  /\ locals.ticker_year_count = n
            /\ Len(appended) >= n
            /\ \A i \in returned :
                  Occurrences(SubSeq(appended, Len(appended) - n + 1, Len(appended)),
                              tasks[i].res[1])
                  = Cardinality({j \in returned : tasks[j].res = tasks[i].res})
            /\ ENABLED msc_PoolExit

\* C24 witness: a cell in which one future raised and another returned a
\* record has been consumed to the end
C24_Witness ==
    /\ prog = "msc_crawl" /\ pc = "pool" /\ AllConsumed
    /\ locals.caught >= 1
    /\ locals.ticker_year_count >= 1
    /\ \E i \in DOMAIN tasks : tasks[i].res # <<>> /\ tasks[i].res[1] \in SeqRange(appended)

\* C25: every (year, ticker) cell is collected once and never again; after
\* its collection comes its processing and then done, or, for a cell without
\* links, done at once with the count 0; and when a cell is done none of its
\* article tasks is unfinished, so none runs while the next cell is collected.
C25_CellPhasesInOrder ==
    prog = "msc_crawl" =>
        LET t == locals.trace IN
        /\ \A k \in 1..Len(t) :
              /\ t[k].ph = "collect" =>
                    /\ k = 1 \/ t[k - 1].ph = "done"
                    /\ \A j \in 1..(k - 1) : t[j].cell # t[k].cell
              /\ t[k].ph = "process" =>
                    k > 1 /\ t[k - 1].ph = "collect" /\ t[k - 1].cell = t[k].cell
              /\ t[k].ph = "done" =>
                    /\ k > 1 /\ t[k - 1].cell = t[k].cell
                    /\ \/ t[k - 1].ph = "process"
                       \/ t[k - 1].ph = "collect" /\ t[k].n = 0
                    /\ t[k].unfinished = 0
        /\ pc = "pool" =>
              /\ t # <<>> /\ t[Len(t)].ph = "process" /\ t[Len(t)].cell = cell
              /\ all_links # <<>>
        /\ pc = "collect" =>
              /\ t = <<>> \/ t[Len(t)].ph = "done"
              /\ \A i \in DOMAIN tasks : tasks[i].st \notin {"queued", "passed"}
              /\ (Len(t) > 1 /\ t[Len(t) - 1].ph = "collect") => all_links = <<>>

\* C25 witness: a cell without links went from collection straight to done
\* with the count 0, and the cell after it was collected, processed with
\* MAX_WORKERS futures or more, and done with a record
C25_Witness ==
    /\ prog = "msc_crawl" /\ pc = "collect"
    /\ Len(locals.trace) = 5
    /\ locals.trace[2].ph = "done" /\ locals.trace[2].n = 0
    /\ locals.trace[4].ph = "process"
    /\ locals.trace[5].ph = "done" /\ locals.trace[5].n >= 1
    /\ Len(all_links) >= MAX_WORKERS

-----------------------------------------------------------------------------
(* SpecCBDR: crawler_by_date_range, started from a shell as                  *)
(*   --start 2025-10-30 --end 2025-10-31 --tickers BID,FPT                   *)
(* (prog = "cbdr_crawl"), or as the child process of crawler_wrapper's       *)
(* prepare_for_inference("2025-10-30", ["BID", "FPT"]), which passes --date  *)
(* and answers the overwrite prompt with "y" (prog = "cbdr_wrapped")         *)

cb_Progs == {"cbdr_crawl", "cbdr_wrapped"}

cb_start_date == END_DATE
cb_end_date == IF prog = "cbdr_wrapped" THEN cb_start_date ELSE NextDay(END_DATE)
cb_tickers == <<"BID", "FPT">>

\* the order of "while current_date <= end_date: for ticker in tickers"
cb_NextCell(c) ==
    IF c[2] < Len(cb_tickers) THEN <<c[1], c[2] + 1>> ELSE <<NextDay(c[1]), 1>>

cb_LoopsDone(c) == ~TupleLE(c[1], cb_end_date)

\* a line of the process's output: what it reports and how many data rows the
\* file holds at that moment
Report(msg, f) == [msg |-> msg, rows |-> Len(RowsOf(f))]

HasPrinted(msg) == \E i \in 1..Len(printed) : printed[i].msg = msg

\* the status the script ends with: sys.exit(1) when parse_arguments gave up,
\* sys.exit(0) when the overwrite was declined, and the end of the script
\* after the try statement, whichever of its branches ran
cb_exit_status(how) == IF how = "usage" THEN 1 ELSE 0

\* locals.web remembers the article each URL showed when it was extracted:
\* the page behind a URL does not change during a run
InitCBDR ==
    /\ prog \in cb_Progs
    /\ pc = "main"
    /\ article = <<>>
    /\ result = <<>>
    /\ IdleLinks
    /\ exit_status = <<>> /\ printed = <<>>
    /\ locals = [fn |-> "crawl_by_date_range", web |-> [u \in URLS |-> <<>>]]
    /\ cells_run = 0 /\ all_links = <<>> /\ tasks = <<>>
    /\ seen_urls = {} /\ batch = <<>> /\ current_batch = <<>>
    /\ csv \in {NoFile, [exists |-> TRUE, lines |-> <<Header>>]}
    /\ total_records = 0 /\ extract_calls = [u \in SeqRange(UrlNames) |-> 0]
    /\ appended = <<>> /\ flushes = <<>> /\ interrupted = FALSE
    /\ cell = <<cb_start_date, 1>>

\* __main__ up to the try statement: parse_arguments, and the overwrite prompt
\* when the output file exists
cb_Main ==
    /\ prog \in cb_Progs /\ pc = "main"
    /\ \E args_ok \in (IF prog = "cbdr_wrapped" THEN {TRUE} ELSE BOOLEAN),
          choice \in (IF prog = "cbdr_wrapped" THEN {"y"} ELSE {"y", "n"}) :
         IF ~args_ok
         THEN /\ printed' = Append(printed, Report("usage", csv))
              /\ exit_status' = <<cb_exit_status("usage")>>
              /\ pc' = "exited"
         ELSE IF csv.exists /\ choice # "y"
         THEN /\ printed' = Append(printed, Report("cancelled", csv))
              /\ exit_status' = <<cb_exit_status("cancelled")>>
              /\ pc' = "exited"
         ELSE /\ pc' = "start"
              /\ UNCHANGED <<exit_status, printed>>
    /\ UNCHANGED <<locals, prog, article, result, lk, crawlVars>>

\* "batch = []; save_to_csv([], output_file, write_header=True)"
cb_Start ==
    /\ prog \in cb_Progs /\ pc = "start"
    /\ csv' = nc_save_batch_to_csv(csv, <<>>, TRUE)
    /\ pc' = "collect"
    /\ UNCHANGED <<extVars, prog, article, result, lk, cell, cells_run, all_links, tasks,
                   seen_urls, batch, current_batch, total_records, extract_calls,
                   appended, flushes, interrupted>>

\* the head of one (day, ticker) iteration
cb_Collect ==
    /\ prog \in cb_Progs /\ pc = "collect"
    /\ ~cb_LoopsDone(cell) /\ cells_run < MaxCells
    /\ cells_run' = cells_run + 1
    /\ \E links \in LinkLists :
         /\ all_links' = links
         /\ IF links = <<>>
            THEN /\ cell' = cb_NextCell(cell)
                 /\ UNCHANGED <<pc, tasks>>
            ELSE /\ tasks' = Submitted(links)
                 /\ pc' = "pool"
                 /\ UNCHANGED cell
    /\ UNCHANGED <<extVars, prog, article, result, lk, seen_urls, batch, current_batch, csv,
                   total_records, extract_calls, appended, flushes, interrupted>>

\* a worker starts process_article: "if url in seen_urls: return None"
cb_Worker_check ==
    /\ prog \in cb_Progs /\ pc = "pool"
    /\ \E i \in DOMAIN tasks :
         /\ IsNextQueued(i)
         /\ tasks' = [tasks EXCEPT ![i].st =
                         IF tasks[i].url \in seen_urls THEN "done" ELSE "passed"]
    /\ UNCHANGED <<extVars, prog, pc, article, result, lk, cell, cells_run, all_links,
                   seen_urls, batch, current_batch, csv, total_records,
                   extract_calls, appended, flushes, interrupted>>

\* the rest of process_article
cb_Worker_extract ==
    /\ prog \in cb_Progs /\ pc = "pool"
    /\ \E i \in DOMAIN tasks :
         /\ tasks[i].st = "passed"
         /\ seen_urls' = seen_urls \cup {tasks[i].url}
         /\ extract_calls' = [extract_calls EXCEPT ![tasks[i].url] = @ + 1]
         /\ \E a \in DatedArticles :
              /\ locals.web[tasks[i].url] \in {<<>>, <<a>>}
              /\ locals' = [locals EXCEPT !.web[tasks[i].url] = <<a>>]
              /\ tasks' = [tasks EXCEPT
                          ![i].st = "done",
                          ![i].res = cbdr_process_article(a, tasks[i].url,
                                        cb_tickers[cell[2]], IsoDateText(cell[1]))]
    /\ UNCHANGED <<exit_status, printed, prog, pc, article, result, lk, cell, cells_run,
                   all_links, batch, current_batch, csv, total_records, appended,
                   flushes, interrupted>>

\* one iteration of "for future in as_completed(futures)"
cb_Main_consume ==
    /\ prog \in cb_Progs /\ pc = "pool"
    /\ \E i \in DOMAIN tasks :
         /\ tasks[i].st = "done"
         /\ tasks' = [tasks EXCEPT ![i].st = "consumed"]
         /\ IF tasks[i].res = <<>>
            THEN UNCHANGED <<batch, csv, total_records, appended, flushes>>
            ELSE LET b == Append(batch, tasks[i].res[1]) IN
                 /\ total_records' = total_records + 1
                 /\ appended' = Append(appended, tasks[i].res[1])
                 /\ IF Len(b) >= BATCH_SIZE
                    THEN /\ csv' = nc_save_batch_to_csv(csv, b, FALSE)
                         /\ flushes' = Append(flushes, Len(b))
                         /\ batch' = <<>>
                    ELSE /\ batch' = b
                         /\ UNCHANGED <<csv, flushes>>
    /\ UNCHANGED <<extVars, prog, pc, article, result, lk, cell, cells_run, all_links,
                   seen_urls, current_batch, extract_calls, interrupted>>

cb_PoolExit ==
    /\ prog \in cb_Progs /\ pc = "pool"
    /\ AllConsumed
    /\ pc' = "collect"
    /\ cell' = cb_NextCell(cell)
    /\ tasks' = <<>>
    /\ UNCHANGED <<extVars, prog, article, result, lk, cells_run, all_links, seen_urls,
                   batch, current_batch, csv, total_records, extract_calls,
                   appended, flushes, interrupted>>

\* after the loops: "if batch: save_to_csv(batch, output_file)", the two
\* summaries, the return, the success report of __main__ and the end of the
\* script
cb_Finish ==
    /\ prog \in cb_Progs /\ pc = "collect"
    /\ cb_LoopsDone(cell) \/ cells_run >= MaxCells
    /\ pc' = "exited"
    /\ csv' = IF batch # <<>> THEN nc_save_batch_to_csv(csv, batch, FALSE) ELSE csv
    /\ flushes' = IF batch # <<>> THEN Append(flushes, Len(batch)) ELSE flushes
    /\ printed' = printed \o <<Report("summary", csv'), Report("success", csv')>>
    /\ exit_status' = <<cb_exit_status("success")>>
    /\ UNCHANGED <<locals, prog, article, result, lk, cell, cells_run, all_links, tasks,
                   seen_urls, batch, current_batch, total_records, extract_calls,
                   appended, interrupted>>

\* Ctrl-C while crawl_by_date_range runs.  KeyboardInterrupt is not an
\* Exception: it passes "except Exception" in the loop, the pool is shut down,
\* the frame of crawl_by_date_range (and its local batch) is left, and the
\* handler of __main__ prints two lines; the script ends.
cb_KeyboardInterrupt ==
    /\ prog \in cb_Progs /\ pc \in {"collect", "pool"}
    /\ interrupted' = TRUE
    /\ pc' = "exited"
    /\ printed' = Append(printed, Report("interrupted", csv))
    /\ exit_status' = <<cb_exit_status("interrupted")>>
    /\ UNCHANGED <<locals, prog, article, result, lk, cell, cells_run, all_links, tasks,
                   seen_urls, batch, current_batch, csv, total_records,
                   extract_calls, appended, flushes>>

\* save_to_csv raises outside the loop's try (the output path cannot be
\* opened): at line 244, or at the final flush of line 315.  The handler
\* "except Exception" of __main__ prints the traceback; the script ends.
cb_Exception ==
    /\ prog \in cb_Progs
    /\ \/ pc = "start"
       \/ pc = "collect" /\ (cb_LoopsDone(cell) \/ cells_run >= MaxCells) /\ batch # <<>>
    /\ pc' = "exited"
    /\ printed' = Append(printed, Report("traceback", csv))
    /\ exit_status' = <<cb_exit_status("traceback")>>
    /\ UNCHANGED <<locals, prog, article, result, lk, crawlVars>>

\* crawler_wrapper.prepare_for_inference on the child's return code:
\* crawl_for_date hands back the file name on return code 0, else None, and
\* the file is loaded when it exists
cw_prepare_for_inference(returncode, f) ==
    LET csv_file == IF returncode = 0 THEN <<"output_file">> ELSE <<>>
    IN  IF csv_file # <<>> /\ f.exists
        THEN <<"DataFrame", Len(RowsOf(f))>>
        ELSE <<"None">>

\* subprocess.run returns when the child has exited
cw_Return ==
    /\ prog = "cbdr_wrapped" /\ pc = "exited"
    /\ result' = cw_prepare_for_inference(exit_status[1], csv)
    /\ pc' = "wrapper_returned"
    /\ UNCHANGED <<extVars, prog, article, lk, crawlVars>>

\* the child is still running after 300 seconds: subprocess.run kills it and
\* raises TimeoutExpired, crawl_for_date returns None
cw_Timeout ==
    /\ prog = "cbdr_wrapped" /\ pc \in {"main", "start", "collect", "pool"}
    /\ result' = <<"None">>
    /\ pc' = "wrapper_returned"
    /\ printed' = Append(printed, Report("timeout", csv))
    /\ UNCHANGED <<exit_status, locals, prog, article, lk, crawlVars>>

NextCBDR ==
    \/ cb_Main \/ cb_Start \/ cb_Collect \/ cb_Worker_check \/ cb_Worker_extract
    \/ cb_Main_consume \/ cb_PoolExit \/ cb_Finish \/ cb_KeyboardInterrupt
    \/ cb_Exception \/ cw_Return \/ cw_Timeout

SpecCBDR == InitCBDR /\ [][NextCBDR]_vars

\* C2 (as claimed): when the process exits after a KeyboardInterrupt that
\* arrived with fewer than BATCH_SIZE records in the batch, the CSV contains
\* every record that was appended to the batch.
C2_InterruptKeepsPartialBatch ==
    (prog = "cbdr_crawl" /\ pc = "exited" /\ interrupted /\ Len(batch) < BATCH_SIZE) =>
        \A k \in 1..Len(appended) : Occurrences(RowsOf(csv), Row(appended[k])) >= 1

\* C11 (as claimed): the script exits with status 0 when the crawl completed
\* or the overwrite was declined, and with a non-zero status when
\* crawl_by_date_range raised an exception.
C11_ExitStatusTellsFailure ==
    (prog = "cbdr_crawl" /\ pc = "exited") =>
        /\ (HasPrinted("success") \/ HasPrinted("cancelled")) => exit_status = <<0>>
        /\ HasPrinted("traceback") => exit_status # <<0>>

\* C12 (as claimed): prepare_for_inference returns a DataFrame only when the
\* crawl ran to completion; after an exception, an interrupt or a timeout of
\* the crawler script it returns None.
C12_DataFrameOnlyAfterCompleteCrawl ==
    (prog = "cbdr_wrapped" /\ pc = "wrapper_returned") =>
        (result[1] = "DataFrame" => HasPrinted("success"))

\* C16 (as claimed): however the crawl ends, a KeyboardInterrupt included, the
\* per-ticker and per-date statistics are printed, and at that moment every
\* record appended to the batch is in the file.
C16_FlushThenStatisticsOnEveryEnd ==
    (prog = "cbdr_crawl" /\ pc = "exited"
        /\ (HasPrinted("success") \/ HasPrinted("traceback") \/ interrupted)) =>
        \E i \in 1..Len(printed) :
            printed[i].msg = "summary" /\ printed[i].rows = Len(appended)

------------------------------------------------------------------------\* C29 (as claimed): when the futures of the cell of ticker B have been
\* consumed, every URL of the cell's link list whose article passes the
\* length, ticker and date checks for B has a record (u, B) appended for
\* writing, also a URL that was processed earlier in the run.
C29_RecordForEveryTickerOfUrl ==
    (prog \in cb_Progs /\ pc = "pool" /\ AllConsumed) =>
        \A i \in DOMAIN tasks :
            LET u == tasks[i].url
                B == cb_tickers[cell[2]]
            IN  (/\ locals.web[u] # <<>>
                 /\ cbdr_process_article(locals.web[u][1], u, B,
                                          IsoDateText(cell[1])) # <<>>)
                => \E k \in 1..Len(appended) :
                      appended[k].source = u /\ appended[k].ticker = B

-----
(* SpecSMC: stock_market_crawler_v2, __main__ and crawl_vnexpress_all_time.  *)
(* batch holds the contents of the list the local name refers to,            *)
(* current_batch the contents of the list the module-level name refers to.   *)
(* The two names refer to one list object except between "batch = []" and    *)
(* "current_batch = batch", so an append through batch shows in both.        *)

\* len(SEARCH_KEYWORDS)
smc_NUM_KEYWORDS == 40

\* positions of the main thread at which a KeyboardInterrupt finds it inside
\* the try block of __main__
smc_InsideTry == {"collect", "pool", "save", "reset", "rebind", "returned"}

InitSMC ==
    /\ prog = "smc_crawl"
    /\ pc = "start"
    /\ article = <<>>
    /\ result = <<>>
    /\ IdleLinks
    /\ IdleExt
    /\ cells_run = 0 /\ all_links = <<>> /\ tasks = <<>>
    /\ seen_urls = {} /\ batch = <<>> /\ current_batch = <<>>
    /\ csv \in {NoFile, [exists |-> TRUE, lines |-> <<Header>>]}
    /\ total_records = 0 /\ extract_calls = [u \in SeqRange(UrlNames) |-> 0]
    /\ appended = <<>> /\ flushes = <<>> /\ interrupted = FALSE
    /\ cell = <<1, 0>>

\* "batch = []; current_batch = batch; if os.path.exists(...): os.remove(...)"
smc_Start ==
    /\ prog = "smc_crawl" /\ pc = "start"
    /\ batch' = <<>>
    /\ current_batch' = <<>>
    /\ csv' = NoFile
    /\ pc' = "collect"
    /\ UNCHANGED <<extVars, prog, article, result, lk, cell, cells_run, all_links, tasks,
                   seen_urls, total_records, extract_calls, appended, flushes,
                   interrupted>>

\* the head of one keyword iteration
smc_Collect ==
    /\ prog = "smc_crawl" /\ pc = "collect"
    /\ cell[1] <= smc_NUM_KEYWORDS /\ cells_run < MaxCells
    /\ cells_run' = cells_run + 1
    /\ \E links \in LinkLists :
         /\ all_links' = links
         /\ IF links = <<>>
            THEN /\ cell' = <<cell[1] + 1, 0>>
                 /\ UNCHANGED <<pc, tasks>>
            ELSE /\ tasks' = Submitted(links)
                 /\ pc' = "pool"
                 /\ UNCHANGED cell
    /\ UNCHANGED <<extVars, prog, article, result, lk, seen_urls, batch, current_batch, csv,
                   total_records, extract_calls, appended, flushes, interrupted>>

\* a worker starts process_article: "if url in seen_urls: return None"
smc_Worker_check ==
    /\ prog = "smc_crawl" /\ pc \in {"pool", "save", "reset", "rebind"}
    /\ \E i \in DOMAIN tasks :
         /\ IsNextQueued(i)
         /\ tasks' = [tasks EXCEPT ![i].st =
                         IF tasks[i].url \in seen_urls THEN "done" ELSE "passed"]
    /\ UNCHANGED <<extVars, prog, pc, article, result, lk, cell, cells_run, all_links,
                   seen_urls, batch, current_batch, csv, total_records,
                   extract_calls, appended, flushes, interrupted>>

\* the rest of process_article
smc_Worker_extract ==
    /\ prog = "smc_crawl" /\ pc \in {"pool", "save", "reset", "rebind"}
    /\ \E i \in DOMAIN tasks :
         /\ tasks[i].st = "passed"
         /\ seen_urls' = seen_urls \cup {tasks[i].url}
         /\ extract_calls' = [extract_calls EXCEPT ![tasks[i].url] = @ + 1]
         /\ \E a \in DatedArticles :
              tasks' = [tasks EXCEPT ![i].st = "done",
                                     ![i].res = smc_process_article(a, tasks[i].url)]
    /\ UNCHANGED <<extVars, prog, pc, article, result, lk, cell, cells_run, all_links,
                   batch, current_batch, csv, total_records, appended, flushes,
                   interrupted>>

\* one iteration of "for future in as_completed(futures)" up to the test
\* "if len(batch) >= BATCH_SIZE"
smc_Main_consume ==
    /\ prog = "smc_crawl" /\ pc = "pool"
    /\ \E i \in DOMAIN tasks :
         /\ tasks[i].st = "done"
         /\ tasks' = [tasks EXCEPT ![i].st = "consumed"]
         /\ IF tasks[i].res = <<>>
            THEN UNCHANGED <<pc, batch, current_batch, total_records, appended>>
            ELSE LET b == Append(batch, tasks[i].res[1]) IN
                 /\ batch' = b
                 /\ current_batch' = b
                 /\ total_records' = total_records + 1
                 /\ appended' = Append(appended, tasks[i].res[1])
                 /\ pc' = IF Len(b) >= BATCH_SIZE THEN "save" ELSE "pool"
    /\ UNCHANGED <<extVars, prog, article, result, lk, cell, cells_run, all_links,
                   seen_urls, csv, extract_calls, flushes, interrupted>>

\* line 635: save_batch_to_csv(batch, output_file)
smc_Main_save ==
    /\ prog = "smc_crawl" /\ pc = "save"
    /\ csv' = msc_save_batch_to_csv(csv, batch, FALSE)
    /\ flushes' = Append(flushes, Len(batch))
    /\ pc' = "reset"
    /\ UNCHANGED <<extVars, prog, article, result, lk, cell, cells_run, all_links, tasks,
                   seen_urls, batch, current_batch, total_records, extract_calls,
                   appended, interrupted>>

\* line 637: batch = [] (a new list; current_batch still names the old one)
smc_Main_reset ==
    /\ prog = "smc_crawl" /\ pc = "reset"
    /\ batch' = <<>>
    /\ pc' = "rebind"
    /\ UNCHANGED <<extVars, prog, article, result, lk, cell, cells_run, all_links, tasks,
                   seen_urls, current_batch, csv, total_records, extract_calls,
                   appended, flushes, interrupted>>

\* line 638: current_batch = batch
smc_Main_rebind ==
    /\ prog = "smc_crawl" /\ pc = "rebind"
    /\ current_batch' = batch
    /\ pc' = "pool"
    /\ UNCHANGED <<extVars, prog, article, result, lk, cell, cells_run, all_links, tasks,
                   seen_urls, batch, csv, total_records, extract_calls, appended,
                   flushes, interrupted>>

smc_PoolExit ==
    /\ prog = "smc_crawl" /\ pc = "pool"
    /\ AllConsumed
    /\ pc' = "collect"
    /\ cell' = <<cell[1] + 1, 0>>
    /\ tasks' = <<>>
    /\ UNCHANGED <<extVars, prog, article, result, lk, cells_run, all_links, seen_urls,
                   batch, current_batch, csv, total_records, extract_calls,
                   appended, flushes, interrupted>>

\* after the loop: "if batch: save_batch_to_csv(batch, output_file)" and the
\* return into the try block of __main__
smc_Final_flush ==
    /\ prog = "smc_crawl" /\ pc = "collect"
    /\ cell[1] > smc_NUM_KEYWORDS \/ cells_run >= MaxCells
    /\ pc' = "returned"
    /\ csv' = IF batch # <<>> THEN msc_save_batch_to_csv(csv, batch, FALSE) ELSE csv
    /\ flushes' = IF batch # <<>> THEN Append(flushes, Len(batch)) ELSE flushes
    /\ UNCHANGED <<extVars, prog, article, result, lk, cell, cells_run, all_links, tasks,
                   seen_urls, batch, current_batch, total_records, extract_calls,
                   appended, interrupted>>

\* the statistics of __main__ are printed and the process exits
smc_Exit ==
    /\ prog = "smc_crawl" /\ pc = "returned"
    /\ pc' = "exited"
    /\ UNCHANGED <<extVars, prog, article, result, lk, crawlVars>>

\* Ctrl-C inside the try block of __main__: "except KeyboardInterrupt: if
\* current_batch: save_batch_to_csv(current_batch, output_file)"
smc_KeyboardInterrupt ==
    /\ prog = "smc_crawl" /\ pc \in smc_InsideTry
    /\ interrupted' = TRUE
    /\ pc' = "exited"
    /\ csv' = IF current_batch # <<>>
              THEN msc_save_batch_to_csv(csv, current_batch, FALSE) ELSE csv
    /\ flushes' = IF current_batch # <<>>
                  THEN Append(flushes, Len(current_batch)) ELSE flushes
    /\ UNCHANGED <<extVars, prog, article, result, lk, cell, cells_run, all_links, tasks,
                   seen_urls, batch, current_batch, total_records, extract_calls,
                   appended>>

NextSMC ==
    \/ smc_Start \/ smc_Collect \/ smc_Worker_check \/ smc_Worker_extract
    \/ smc_Main_consume \/ smc_Main_save \/ smc_Main_reset \/ smc_Main_rebind
    \/ smc_PoolExit \/ smc_Final_flush \/ smc_Exit \/ smc_KeyboardInterrupt

SpecSMC == InitSMC /\ [][NextSMC]_vars

\* C3 (as claimed): when the process has exited, normally or after a
\* KeyboardInterrupt at any point, every record appended to the batch is in
\* the CSV exactly as often as it was appended: never missing, never twice.
C3_AppendedWrittenExactlyOnce ==
    (prog = "smc_crawl" /\ pc = "exited") =>
        \A k \in 1..Len(appended) :
            Occurrences(RowsOf(csv), Row(appended[k])) = Occurrences(appended, appended[k])

-----------------------------------------------------------------------------
(* SpecFixed: multi_source_crawler_fixed.crawl_multi_source *)

\* the modelled run finds its first links in one of these cells (the cells
\* before it took the "continue" of an empty list)
fix_StartCells == {<<START_DATE[1], 1>>, <<END_DATE[1], 2>>, <<END_DATE[1], Len(fix_TICKERS)>>}

fix_NextCell(c) ==
    IF c[2] < Len(fix_TICKERS) THEN <<c[1], c[2] + 1>> ELSE <<c[1] + 1, 1>>

fix_LoopsDone(c) == c[1] > END_DATE[1]

\* "seen_urls_for_ticker = set()" at the head of a cell, with the mutant that
\* keeps one set for the whole run
fix_seen_urls_shared(seen) == seen
fix_seen_urls_for_ticker(seen) == {}

InitFixed ==
    /\ prog = "fix_crawl"
    /\ pc = "start"
    /\ article = <<>>
    /\ result = <<>>
    /\ IdleLinks
    /\ exit_status = <<>> /\ printed = <<>>
    /\ locals = [fn |-> "crawl_multi_source", extracted |-> [u \in URLS |-> 0]]
    /\ IdleCrawl
    /\ cell \in fix_StartCells

\* "batch = []; save_batch_to_csv([], output_file, write_header=True)"
fix_Start ==
    /\ prog = "fix_crawl" /\ pc = "start"
    /\ csv' = nc_save_batch_to_csv(csv, <<>>, TRUE)
    /\ pc' = "collect"
    /\ UNCHANGED <<extVars, prog, article, result, lk, cell, cells_run, all_links, tasks,
                   seen_urls, batch, current_batch, total_records, extract_calls,
                   appended, flushes, interrupted>>

\* the head of one (year, ticker) iteration: a fresh seen_urls_for_ticker and
\* the links of the sources; locals.extracted counts the extract_content calls
\* of the cell per URL
fix_Collect ==
    /\ prog = "fix_crawl" /\ pc = "collect"
    /\ ~fix_LoopsDone(cell) /\ cells_run < MaxCells
    /\ cells_run' = cells_run + 1
    /\ seen_urls' = fix_seen_urls_for_ticker(seen_urls)
    /\ locals' = [locals EXCEPT !.extracted = [u \in URLS |-> 0]]
    /\ \E links \in LinkLists :
         /\ all_links' = links
         /\ IF links = <<>>
            THEN /\ cell' = fix_NextCell(cell)
                 /\ UNCHANGED <<pc, tasks>>
            ELSE /\ tasks' = Submitted(links)
                 /\ pc' = "pool"
                 /\ UNCHANGED cell
    /\ UNCHANGED <<exit_status, printed, prog, article, result, lk, batch,
                   current_batch, csv, total_records, extract_calls, appended,
                   flushes, interrupted>>

\* a worker starts process_article: the test and the add under seen_urls_lock
fix_Worker_check ==
    /\ prog = "fix_crawl" /\ pc = "pool"
    /\ \E i \in DOMAIN tasks :
         /\ IsNextQueued(i)
         /\ tasks' = [tasks EXCEPT ![i].st =
                         IF tasks[i].url \in seen_urls THEN "done" ELSE "passed"]
         /\ seen_urls' = seen_urls \cup {tasks[i].url}
    /\ UNCHANGED <<extVars, prog, pc, article, result, lk, cell, cells_run, all_links,
                   batch, current_batch, csv, total_records, extract_calls,
                   appended, flushes, interrupted>>

\* the rest of process_article: extract_content and the checks
fix_Worker_extract ==
    /\ prog = "fix_crawl" /\ pc = "pool"
    /\ \E i \in DOMAIN tasks :
         /\ tasks[i].st = "passed"
         /\ extract_calls' = [extract_calls EXCEPT ![tasks[i].url] = @ + 1]
         /\ locals' = [locals EXCEPT !.extracted[tasks[i].url] = @ + 1]
         /\ \E a \in CrawlArticles :
              tasks' = [tasks EXCEPT
                          ![i].st = "done",
                          ![i].res = fix_process_article(a, tasks[i].url,
                                        fix_TICKERS[cell[2]], cell[1])]
    /\ UNCHANGED <<exit_status, printed, prog, pc, article, result, lk, cell, cells_run, all_links,
                   seen_urls, batch, current_batch, csv, total_records, appended,
                   flushes, interrupted>>

\* one iteration of "for future in as_completed(futures)"
fix_Main_consume ==
    /\ prog = "fix_crawl" /\ pc = "pool"
    /\ \E i \in DOMAIN tasks :
         /\ tasks[i].st = "done"
         /\ tasks' = [tasks EXCEPT ![i].st = "consumed"]
         /\ IF tasks[i].res = <<>>
            THEN UNCHANGED <<batch, csv, total_records, appended, flushes>>
            ELSE LET b == Append(batch, tasks[i].res[1]) IN
                 /\ total_records' = total_records + 1
                 /\ appended' = Append(appended, tasks[i].res[1])
                 /\ IF Len(b) >= BATCH_SIZE
                    THEN /\ csv' = nc_save_batch_to_csv(csv, b, FALSE)
                         /\ flushes' = Append(flushes, Len(b))
                         /\ batch' = <<>>
                    ELSE /\ batch' = b
                         /\ UNCHANGED <<csv, flushes>>
    /\ UNCHANGED <<extVars, prog, pc, article, result, lk, cell, cells_run, all_links,
                   seen_urls, current_batch, extract_calls, interrupted>>

fix_PoolExit ==
    /\ prog = "fix_crawl" /\ pc = "pool"
    /\ AllConsumed
    /\ pc' = "collect"
    /\ cell' = fix_NextCell(cell)
    /\ tasks' = <<>>
    /\ UNCHANGED <<extVars, prog, article, result, lk, cells_run, all_links, seen_urls,
                   batch, current_batch, csv, total_records, extract_calls,
                   appended, flushes, interrupted>>

\* after the loops: "if batch: save_batch_to_csv(batch, output_file)"
fix_Finish ==
    /\ prog = "fix_crawl" /\ pc = "collect"
    /\ fix_LoopsDone(cell) \/ cells_run >= MaxCells
    /\ pc' = "done"
    /\ csv' = IF batch # <<>> THEN nc_save_batch_to_csv(csv, batch, FALSE) ELSE csv
    /\ flushes' = IF batch # <<>> THEN Append(flushes, Len(batch)) ELSE flushes
    /\ UNCHANGED <<extVars, prog, article, result, lk, cell, cells_run, all_links, tasks,
                   seen_urls, batch, current_batch, total_records, extract_calls,
                   appended, interrupted>>

NextFixed ==
    \/ fix_Start \/ fix_Collect \/ fix_Worker_check \/ fix_Worker_extract
    \/ fix_Main_consume \/ fix_PoolExit \/ fix_Finish

SpecFixed == InitFixed /\ [][NextFixed]_vars

\* C7 (as claimed): every record written by the fixed crawler has a ticker of
\* TICKERS and a date from START_DATE to END_DATE inclusive, in every cell,
\* those of the last year included.
C7_WrittenRecordsInsideWindow ==
    prog = "fix_crawl" =>
        \A k \in 1..Len(RowsOf(csv)) :
            LET r == RowsOf(csv)[k][2] IN
            /\ r.ticker \in SeqRange(fix_TICKERS)
            /\ TupleLE(START_DATE, r.date.d)
            /\ TupleLE(r.date.d, END_DATE)

\* C17: in every (year, ticker) cell of the fixed crawler a URL is extracted
\* at most once, whatever the duplicates in the link list and the order of the
\* workers, and when the pool of the cell has finished every collected URL was
\* extracted exactly once in that cell, also a URL extracted in an earlier cell.
C17_ExtractedExactlyOncePerCell ==
    prog = "fix_crawl" =>
        /\ \A u \in URLS : locals.extracted[u] <= 1
        /\ (pc = "pool" /\ AllConsumed) =>
               \A k \in 1..Len(all_links) : locals.extracted[all_links[k]] = 1

\* C17 witness: the second cell has finished a link list that holds u1 twice,
\* u1 was extracted once in this cell and once in the cell before
C17_Witness ==
    /\ prog = "fix_crawl" /\ pc = "pool" /\ AllConsumed
    /\ cells_run = 2
    /\ Occurrences(all_links, "u1") >= 2
    /\ locals.extracted["u1"] = 1
    /\ extract_calls["u1"] = 2

-----------------------------------------------------------------------------
(* SpecUpdate: analyze_news_sentiment.batch_update_sentiment_scores on one   *)
(* batch.  Scores are counted in units of 0.00001.                           *)

sa_max_retries == 3
\* "tolerance = 0.0001"
sa_tolerance == 10

Abs(x) == IF x < 0 THEN -x ELSE x

\* saved - written for (negative_score, positive_score, neutral_score)
ScoreDiffs ==
    {<<0, 0, 0>>, <<9, 9, -9>>, <<10, 0, 0>>, <<0, -10, 0>>, <<0, 0, 10>>, <<0, 0, 11>>}

\* what the store does in one attempt: the update raises, or reports rows
\* affected rows; the re-read returns no row, or the row with diffs
AttemptOutcomes ==
    [raises : {TRUE}, rows : {0}, readable : {FALSE}, diffs : {<<0, 0, 0>>}]
    \cup [raises : {FALSE}, rows : {0, 1}, readable : BOOLEAN, diffs : ScoreDiffs]

\* mutant: the neutral score is not compared
sa_is_match_without_neutral(d) == Abs(d[1]) < sa_tolerance /\ Abs(d[2]) < sa_tolerance

\* is_match (lines 186-190)
sa_is_match(d) ==
    Abs(d[1]) < sa_tolerance /\ Abs(d[2]) < sa_tolerance /\ Abs(d[3]) < sa_tolerance

\* the body of the try block reaches "update_success = True"
sa_attempt_succeeds(o, verify) ==
    /\ ~o.raises
    /\ o.rows > 0
    /\ verify => (o.readable /\ sa_is_match(o.diffs))

\* retry_count after an attempt: "retry_count += 1" in the except clause,
\* with the mutant that forgets the increment
sa_retry_count_stuck(ok, retry_count) == retry_count
sa_retry_count_after(ok, retry_count) == IF ok THEN retry_count ELSE retry_count + 1

InitUpdate ==
    /\ prog = "sa_update"
    /\ pc = "updating"
    /\ article = <<>>
    /\ result = <<>>
    /\ IdleLinks
    /\ IdleCrawl
    /\ cell = <<0, 0>>
    /\ exit_status = <<>> /\ printed = <<>>
    /\ \E k \in 0..MaxLinks, v \in BOOLEAN :
         locals = [fn |-> "batch_update_sentiment_scores",
                   batch_updates |-> [j \in 1..k |-> j], verify |-> v,
                   i |-> 1, retry_count |-> 0, success |-> 0, failed |-> 0,
                   failed_ids |-> <<>>, last |-> <<>>]

\* one iteration of "while retry_count < max_retries and not update_success",
\* and, when it ends the loop, the rest of the for body
su_Attempt ==
    /\ prog = "sa_update" /\ pc = "updating"
    /\ locals.i <= Len(locals.batch_updates)
    /\ \E o \in AttemptOutcomes :
         LET ok == sa_attempt_succeeds(o, locals.verify)
             rc == sa_retry_count_after(ok, locals.retry_count)
             over == ok \/ rc >= sa_max_retries
             news_id == locals.batch_updates[locals.i]
         IN  locals' = [locals EXCEPT
                 !.success = IF ok THEN @ + 1 ELSE @,
                 !.failed = IF ~ok /\ over THEN @ + 1 ELSE @,
                 !.failed_ids = IF ~ok /\ over THEN Append(@, news_id) ELSE @,
                 !.retry_count = IF over THEN 0 ELSE rc,
                 !.i = IF over THEN @ + 1 ELSE @,
                 !.last = <<[news_id |-> news_id, o |-> o, counted |-> ok,
                             retry_before |-> locals.retry_count,
                             retry_after |-> rc, given_up |-> ~ok /\ over]>>]
    /\ UNCHANGED <<exit_status, printed, prog, pc, article, result, lk, crawlVars>>

\* "return success, failed, failed_ids"
su_Return ==
    /\ prog = "sa_update" /\ pc = "updating"
    /\ locals.i > Len(locals.batch_updates)
    /\ pc' = "returned"
    /\ result' = <<locals.success, locals.failed, locals.failed_ids>>
    /\ UNCHANGED <<extVars, prog, article, lk, crawlVars>>

NextUpdate == su_Attempt \/ su_Return

SpecUpdate == InitUpdate /\ [][NextUpdate]_vars

\* the function is a sequential loop: while a step is possible one is taken
SpecUpdateLive == SpecUpdate /\ WF_vars(NextUpdate)

\* C13: with verify=True an attempt counts its record as a success exactly when
\* the update reported at least one row and the re-read of the same attempt
\* returned the row with all three scores less than 0.0001 from the written
\* ones; any other attempt raises the retry counter and, while retries remain,
\* the whole update is attempted again for the same record.
C13_SuccessOnlyAfterVerifiedWrite ==
    (prog = "sa_update" /\ locals.verify /\ locals.last # <<>>) =>
        LET l == locals.last[1]
            d == l.o.diffs
            verified == /\ ~l.o.raises /\ l.o.rows >= 1 /\ l.o.readable
                        /\ Abs(d[1]) < 10 /\ Abs(d[2]) < 10 /\ Abs(d[3]) < 10
        IN  /\ l.counted <=> verified
            /\ ~verified => l.retry_after = l.retry_before + 1
            /\ (~verified /\ l.retry_after < 3) =>
                  /\ locals.i <= Len(locals.batch_updates)
                  /\ locals.batch_updates[locals.i] = l.news_id
                  /\ locals.retry_count = l.retry_after
            /\ l.given_up <=> (~verified /\ l.retry_after = 3)
            /\ locals.success + locals.failed = locals.i - 1

\* C13 witness: the update reported a row and the re-read returned it, but the
\* neutral score was 0.0001 off: not counted, and the second attempt is due
C13_Witness ==
    /\ prog = "sa_update" /\ locals.verify /\ locals.last # <<>>
    /\ locals.last[1].o.rows = 1 /\ locals.last[1].o.readable
    /\ locals.last[1].o.diffs = <<0, 0, 10>>
    /\ ~locals.last[1].counted
    /\ locals.retry_count = 1
    /\ locals.success = 1

\* C27: batch_update_sentiment_scores returns whatever the store answers;
\* no record is attempted more than max_retries (3) times; on return
\* success + failed is the number of input records, and failed_ids holds the
\* records given up, each once.
C27_UpdateTerminatesAndAccountsForAll ==
    /\ <>(prog = "sa_update" => pc = "returned")
    /\ [](prog = "sa_update" =>
            /\ locals.last # <<>> =>
                  /\ locals.last[1].retry_before + 1 <= 3
                  /\ locals.last[1].given_up =>
                        /\ locals.failed_ids # <<>>
                        /\ locals.failed_ids[Len(locals.failed_ids)] = locals.last[1].news_id
                  /\ locals.last[1].counted =>
                        Occurrences(locals.failed_ids, locals.last[1].news_id) = 0
            /\ Len(locals.failed_ids) = locals.failed
            /\ \A id \in SeqRange(locals.batch_updates) :
                  Occurrences(locals.failed_ids, id) <= 1
            /\ SeqRange(locals.failed_ids) \subseteq SeqRange(locals.batch_updates)
            /\ pc = "returned" =>
                  /\ locals.success + locals.failed = Len(locals.batch_updates)
                  /\ result = <<locals.success, locals.failed, locals.failed_ids>>)

\* C27 witness: a batch of two or more records has returned, one of them
\* given up after the third failed attempt, another one updated
C27_Witness ==
    /\ prog = "sa_update" /\ pc = "returned"
    /\ Len(locals.batch_updates) >= 2
    /\ locals.failed = 1 /\ locals.success >= 1
    /\ locals.last # <<>> /\ locals.last[1].given_up /\ locals.last[1].retry_after = 3

-----------------------------------------------------------------------------
(* SpecSentiment: analyze_news_sentiment.process_all_news(batch_size =       *)
(* FetchSize, update_batch_size = BATCH_SIZE) on a table whose rows have the *)
(* ids 1..total_count, none with scores; locals.empty holds the ids of the   *)
(* rows whose content is empty                                               *)

\* for each record of a set, the number of failing attempts the store causes
\* before an attempt succeeds (sa_max_retries: none succeeds)
UpdateEnvs(S) == [S -> {0, 1, sa_max_retries}]

\* batch_update_sentiment_scores as process_all_news sees it: a record fails
\* when max_retries attempts failed in a row
sa_batch_update(buffer, env) ==
    LET failing == {k \in 1..Len(buffer) : env[k] >= sa_max_retries} IN
    [success |-> Len(buffer) - Cardinality(failing),
     failed |-> Cardinality(failing),
     failed_ids |-> SelectSeq(buffer, LAMBDA id :
                        \E k \in failing : buffer[k] = id),
     calls |-> [k \in 1..Len(buffer) |-> [news_id |-> buffer[k], fails |-> env[k]]]]

\* "update_buffer = []" after a threshold update, with the mutant that keeps it
pa_buffer_kept(b) == b
pa_buffer_after_update(b) == <<>>

\* analyze_sentiment, in units of 0.00001: (negative, positive, neutral); an
\* empty text gets (0.0, 0.0, 1.0), a text the softmax output of the model
sa_analyze_sentiment(empty) ==
    IF empty THEN <<0, 0, 100000>> ELSE <<20000, 30000, 50000>>

\* the filter of the final verification:
\* or_('negative_score.neq.0,positive_score.neq.0,neutral_score.neq.1');
\* a row without scores (null) does not match
sa_has_scores(row) ==
    row # <<>> /\ (row[1][1] # 0 \/ row[1][2] # 0 \/ row[1][3] # 100000)

\* the lines of the function that follow a call of
\* batch_update_sentiment_scores(b), applied to the locals l; db is the
\* news_data table, where the call wrote the scores of the records it updated
pa_after_update(l, b, env) ==
    LET r == sa_batch_update(b, env)
        written == {r.calls[k].news_id :
                      k \in {j \in 1..Len(r.calls) : r.calls[j].fails < sa_max_retries}}
    IN
    [l EXCEPT !.success = @ + r.success,
              !.failed = @ + r.failed,
              !.all_failed_ids = @ \o r.failed_ids,
              !.submitted = @ \o r.calls,
              !.db = [id \in DOMAIN @ |->
                        IF id \in written
                        THEN <<sa_analyze_sentiment(id \in l.empty)>> ELSE @[id]]]

\* the loop "for news in news_list"; env[id] is the store's behaviour when the
\* record with that id is updated
RECURSIVE pa_process(_, _, _)
pa_process(news_list, l, env) ==
    IF news_list = <<>> THEN l
    ELSE LET b == Append(l.update_buffer, Head(news_list))
             l1 == [l EXCEPT !.processed = @ + 1,
                             !.analysed = Append(@, Head(news_list))]
             l2 == IF Len(b) >= BATCH_SIZE
                   THEN [pa_after_update(l1, b, [k \in 1..Len(b) |-> env[b[k]]])
                            EXCEPT !.update_buffer = pa_buffer_after_update(b)]
                   ELSE [l1 EXCEPT !.update_buffer = b]
         IN  pa_process(Tail(news_list), l2, env)

InitSentiment ==
    /\ prog = "sa_process"
    /\ pc = "loop"
    /\ article = <<>>
    /\ result = <<>>
    /\ IdleLinks
    /\ IdleCrawl
    /\ cell = <<0, 0>>
    /\ exit_status = <<>> /\ printed = <<>>
    /\ \E n \in 0..MaxNews :
         \E empty \in SUBSET (1..n) :
         locals = [fn |-> "process_all_news", total_count |-> n, processed |-> 0,
                   success |-> 0, failed |-> 0, offset |-> 0,
                   all_failed_ids |-> <<>>, update_buffer |-> <<>>,
                   analysed |-> <<>>, submitted |-> <<>>, error_log |-> <<>>,
                   empty |-> empty, db |-> [id \in 1..n |-> <<>>],
                   actually_updated |-> <<>>]

\* one iteration of "while processed < total_count": the page is fetched
\* (get_all_news returns [] when the request raises) and its records are
\* analysed, buffered and updated
pa_Iteration ==
    /\ prog = "sa_process" /\ pc = "loop"
    /\ locals.processed < locals.total_count
    /\ LET current_batch_size ==
               IF FetchSize < locals.total_count - locals.processed
               THEN FetchSize ELSE locals.total_count - locals.processed
           page == [k \in 1..current_batch_size |-> locals.offset + k]
       IN  \E fetched \in BOOLEAN :
             IF ~fetched
             THEN /\ pc' = "after_loop"
                  /\ UNCHANGED locals
             ELSE /\ \E env \in UpdateEnvs({locals.offset + k : k \in 1..current_batch_size}
                                          \cup {locals.update_buffer[k] :
                                                  k \in 1..Len(locals.update_buffer)}) :
                       locals' = [pa_process(page, locals, env)
                                     EXCEPT !.offset = @ + current_batch_size]
                  /\ UNCHANGED pc
    /\ UNCHANGED <<exit_status, printed, prog, article, result, lk, crawlVars>>

\* after the loop: the rest of the buffer is updated, the failed records are
\* written to the error log, the rows with scores are counted (unless the
\* request raises), and the function returns
pa_Finish ==
    /\ prog = "sa_process"
    /\ \/ pc = "after_loop"
       \/ pc = "loop" /\ locals.processed >= locals.total_count
    /\ \E env \in UpdateEnvs(1..Len(locals.update_buffer)) :
         LET l == IF locals.update_buffer # <<>>
                  THEN pa_after_update(locals, locals.update_buffer, env)
                  ELSE locals
         IN  /\ \E verified \in BOOLEAN :
                   locals' = [l EXCEPT
                      !.error_log = l.all_failed_ids,
                      !.actually_updated =
                          IF verified
                          THEN <<Cardinality({id \in DOMAIN l.db : sa_has_scores(l.db[id])})>>
                          ELSE <<>>]
             /\ result' = <<l.success, l.failed, l.all_failed_ids>>
    /\ pc' = "returned"
    /\ UNCHANGED <<exit_status, printed, prog, article, lk, crawlVars>>

NextSentiment == pa_Iteration \/ pa_Finish

SpecSentiment == InitSentiment /\ [][NextSentiment]_vars

\* C14 (as claimed): when process_all_news returns, all total_count records
\* were analysed and submitted for update, each counted as a success or a
\* failure, also when a page fetch failed on the way.
C14_EveryRecordProcessed ==
    (prog = "sa_process" /\ pc = "returned") =>
        /\ locals.processed = locals.total_count
        /\ \A id \in 1..locals.total_count :
              \E k \in 1..Len(locals.submitted) : locals.submitted[k].news_id = id
        /\ locals.success + locals.failed = locals.total_count

C30_VerificationCountEqualsSuccess ==
    (prog = "sa_process" /\ pc = "returned" /\ locals.failed = 0
     /\ locals.actually_updated # <<>>) =>
        locals.actually_updated[1] = locals.success

-----------------------------------------------------------------------------
(* SpecPipeline: phase1_deployment/run_full_pipeline.py from the command     *)
(* line, with the main of hyperparameter_tuning.py that it calls             *)

\* values given to --n-trials (30 is the default)
NTrialsArgs == {5, 10, 30, 50}

PipelineArgs == [skip_tuning : BOOLEAN, quick : BOOLEAN, n_trials : NTrialsArgs]

\* "n_trials = 10 if args.quick else args.n_trials"
rfp_n_trials(args) == IF args.quick THEN 10 ELSE args.n_trials

\* the n_trials argument of the three tune_* calls of hyperparameter_tuning.main
ht_main_n_trials == 30

InitPipeline ==
    /\ prog = "rfp"
    /\ pc = "main"
    /\ article = <<>>
    /\ result = <<>>
    /\ IdleLinks
    /\ IdleCrawl
    /\ cell = <<0, 0>>
    /\ exit_status = <<>> /\ printed = <<>>
    /\ \E args \in PipelineArgs, optuna \in BOOLEAN :
         locals = [fn |-> "main", args |-> args, optuna |-> optuna,
                   n_trials |-> <<>>, model |-> 0, studies |-> <<>>,
                   tuning_success |-> FALSE]

\* main up to the call of run_hyperparameter_tuning(n_trials)
rfp_Main ==
    /\ prog = "rfp" /\ pc = "main"
    /\ IF locals.args.skip_tuning
       THEN /\ pc' = "ensemble"
            /\ UNCHANGED locals
       ELSE /\ pc' = "run_hyperparameter_tuning"
            /\ locals' = [locals EXCEPT !.n_trials = <<rfp_n_trials(locals.args)>>]
    /\ UNCHANGED <<exit_status, printed, prog, article, result, lk, crawlVars>>

\* run_hyperparameter_tuning up to the first tune_* call of tuning_main():
\* returns False without optuna or when the import or the data loading raises
rfp_run_hyperparameter_tuning ==
    /\ prog = "rfp" /\ pc = "run_hyperparameter_tuning"
    /\ \E raises \in BOOLEAN :
         IF ~locals.optuna \/ raises
         THEN /\ pc' = "ensemble"
              /\ UNCHANGED locals
         ELSE /\ pc' = "tuning_main"
              /\ locals' = [locals EXCEPT !.model = 1]
    /\ UNCHANGED <<exit_status, printed, prog, article, result, lk, crawlVars>>

\* one "try: tuner.tune_<model>(n_trials=30)" of tuning_main, which runs
\* study.optimize with the n_trials it is given; after the third, save_results
\* and the return to run_hyperparameter_tuning
ht_tune ==
    /\ prog = "rfp" /\ pc = "tuning_main"
    /\ \E raises \in BOOLEAN, saved \in BOOLEAN :
         LET models == <<"xgboost", "catboost", "lightgbm">>
             study == [model |-> models[locals.model], n_trials |-> ht_main_n_trials,
                       complete |-> ~raises]
             last == locals.model = Len(models)
         IN  /\ locals' = [locals EXCEPT
                              !.studies = Append(@, study),
                              !.model = IF last THEN 0 ELSE @ + 1,
                              !.tuning_success = last /\ saved]
             /\ pc' = IF last THEN "ensemble" ELSE "tuning_main"
    /\ UNCHANGED <<exit_status, printed, prog, article, result, lk, crawlVars>>

\* Ctrl-C during run_hyperparameter_tuning: main goes on with the ensemble
rfp_KeyboardInterrupt ==
    /\ prog = "rfp" /\ pc \in {"run_hyperparameter_tuning", "tuning_main"}
    /\ pc' = "ensemble"
    /\ locals' = [locals EXCEPT !.tuning_success = FALSE, !.model = 0]
    /\ printed' = Append(printed, "interrupted")
    /\ UNCHANGED <<exit_status, prog, article, result, lk, crawlVars>>

\* run_ensemble_methods, the summary, "sys.exit(0 if success else 1)"
rfp_Ensemble ==
    /\ prog = "rfp" /\ pc = "ensemble"
    /\ \E ensemble_success \in BOOLEAN :
         /\ result' = <<ensemble_success>>
         /\ exit_status' = <<IF ensemble_success THEN 0 ELSE 1>>
    /\ pc' = "exited"
    /\ UNCHANGED <<printed, locals, prog, article, lk, crawlVars>>

NextPipeline ==
    \/ rfp_Main \/ rfp_run_hyperparameter_tuning \/ ht_tune
    \/ rfp_KeyboardInterrupt \/ rfp_Ensemble

SpecPipeline == InitPipeline /\ [][NextPipeline]_vars

\* C18 (as claimed): every optimisation the pipeline runs uses the number of
\* trials chosen on the command line (10 with --quick, otherwise --n-trials).
C18_TrialsFollowCommandLine ==
    prog = "rfp" =>
        \A k \in 1..Len(locals.studies) :
            locals.studies[k].n_trials = rfp_n_trials(locals.args)

-----------------------------------------------------------------------------
(* SpecMscLinks: get_article_links of VnExpressCrawler ("mvx_links") and of  *)
(* CafeFCrawler ("mcf_links") in multi_source_crawler.py, called with        *)
(* max_pages = MaxPages.  lk holds the function's locals: query, page,       *)
(* consecutive_empty, links (a list, duplicates kept), and the history:      *)
(* requests, the page numbers requested for the current query in order;      *)
(* stale_run, how many pages in a row of the current query yielded no link   *)
(* outside links; last, the counter before and after the last page; sleeps,  *)
(* for each request of the current query whether a sleep followed it.        *)

mvx_EMPTY_LIMIT == 2
mcf_EMPTY_LIMIT == 3
mcf_NUM_QUERIES == 4

\* what one search-page request can come back with: the links found on it
MscPageResponses ==
    {[kind |-> "non200", links |-> <<>>], [kind |-> "exception", links |-> <<>>]}
    \cup [kind : {"ok"}, links : {<<>>, <<"u1">>}]

\* VnExpressCrawler lines 81-109: consecutive_empty after a page
mvx_consecutive_empty_after(ce, resp) ==
    IF resp.kind # "ok" THEN ce + 1
    ELSE IF resp.links = <<>> THEN ce + 1 ELSE 0

\* CafeFCrawler lines 401-432: consecutive_empty after a request
mcf_consecutive_empty_after(ce, resp) ==
    IF resp.kind # "ok" THEN ce + 1
    ELSE IF resp.links = <<>> THEN ce + 1 ELSE 0

\* CafeFCrawler lines 394-399: the loop "for page in range(1, max_pages + 1)"
\* holds only the break test and the assignment of url; the page numbers of
\* the urls left in url when the loop ends (none only without an iteration)
mcf_page_loop(ce, max_pages) ==
    IF max_pages < 1 \/ ce >= mcf_EMPTY_LIMIT THEN <<>> ELSE <<max_pages>>

\* VnExpressCrawler lines 81-109 (DanTriCrawler 187-223 alike): time.sleep is
\* reached at the end of the try body and in the except clause; the two
\* "continue" statements come before it
mvx_sleeps_after(resp) ==
    resp.kind = "exception" \/ (resp.kind = "ok" /\ resp.links # <<>>)

InitMscLinks ==
    /\ prog \in {"mvx_links", "mcf_links"}
    /\ pc = "paging"
    /\ lk = [query |-> 1, page |-> 1, consecutive_empty |-> 0, links |-> <<>>,
             requests |-> <<>>, sleeps |-> <<>>, stale_run |-> 0, last |-> <<>>,
             queries_run |-> 1]
    /\ article = <<>>
    /\ result = <<>>
    /\ IdleCrawl
    /\ IdleExt
    /\ cell = <<0, 0>>

\* VnExpress: one iteration of "for page in range(1, max_pages + 1)"
mvx_Page ==
    /\ prog = "mvx_links" /\ pc = "paging"
    /\ lk.page <= MaxPages /\ lk.consecutive_empty < mvx_EMPTY_LIMIT
    /\ \E resp \in MscPageResponses :
         LET new_count == Cardinality(SeqRange(resp.links) \ SeqRange(lk.links))
             after == mvx_consecutive_empty_after(lk.consecutive_empty, resp)
         IN  lk' = [lk EXCEPT
                      !.consecutive_empty = after,
                      !.links = lk.links \o resp.links,
                      !.requests = Append(lk.requests, lk.page),
                      !.sleeps = Append(lk.sleeps, mvx_sleeps_after(resp)),
                      !.stale_run = IF new_count = 0 THEN @ + 1 ELSE 0,
                      !.last = <<[new_count |-> new_count,
                                  before |-> lk.consecutive_empty, after |-> after]>>,
                      !.page = lk.page + 1]
    /\ UNCHANGED <<extVars, prog, pc, article, result, crawlVars>>

\* VnExpress: the page loop ends and the next query starts
mvx_NextQuery ==
    /\ prog = "mvx_links" /\ pc = "paging"
    /\ lk.page > MaxPages \/ lk.consecutive_empty >= mvx_EMPTY_LIMIT
    /\ lk.queries_run < MaxQueries
    /\ lk' = [lk EXCEPT !.query = @ + 1, !.page = 1, !.consecutive_empty = 0,
                        !.requests = <<>>, !.sleeps = <<>>, !.stale_run = 0,
                        !.last = <<>>,
                        !.queries_run = @ + 1]
    /\ UNCHANGED <<extVars, prog, pc, article, result, crawlVars>>

\* CafeF: the body of "for query in queries": the page loop, then the try
\* block with the request, which stands after the loop
mcf_Query ==
    /\ prog = "mcf_links" /\ pc = "paging"
    /\ lk.query <= mcf_NUM_QUERIES /\ lk.queries_run <= MaxQueries
    /\ \E resp \in MscPageResponses :
         LET urls == mcf_page_loop(0, MaxPages)
             new_count == Cardinality(SeqRange(resp.links) \ SeqRange(lk.links))
             after == mcf_consecutive_empty_after(0, resp)
         IN  lk' = [lk EXCEPT
                      !.consecutive_empty = after,
                      !.links = lk.links \o resp.links,
                      !.requests = urls,
                      !.sleeps = <<resp.kind # "non200">>,
                      !.stale_run = IF new_count = 0 THEN 1 ELSE 0,
                      !.last = <<[new_count |-> new_count, before |-> 0,
                                  after |-> after]>>,
                      !.page = MaxPages,
                      !.query = @ + 1,
                      !.queries_run = @ + 1]
    /\ UNCHANGED <<extVars, prog, pc, article, result, crawlVars>>

NextMscLinks == mvx_Page \/ mvx_NextQuery \/ mcf_Query

SpecMscLinks == InitMscLinks /\ [][NextMscLinks]_vars

\* C19 (as claimed): in VnExpressCrawler.get_article_links the counter goes up
\* by one on every page without a not-yet-seen link and is reset only by a
\* page with a new link, so no page is requested after 2 pages in a row that
\* yielded nothing new.
C19_CounterCountsPagesWithoutNewLinks ==
    prog = "mvx_links" =>
        /\ lk.last # <<>> =>
              /\ lk.last[1].new_count = 0 => lk.last[1].after = lk.last[1].before + 1
              /\ lk.last[1].new_count > 0 => lk.last[1].after = 0
        /\ lk.stale_run <= 2

\* C21 (as claimed): in the get_article_links collectors every search-page
\* request that is followed by another request of the query is followed by a
\* sleep first, whatever the request came back with.
C21_SleepAfterEveryPageRequest ==
    prog = "mvx_links" =>
        \A k \in 1..(Len(lk.requests) - 1) : lk.sleeps[k]

\* C20 (as claimed): in CafeFCrawler.get_article_links the pages requested for
\* a query are 1, 2, 3, ... in this order, one request each.
C20_PagesRequestedInOrderFromOne ==
    prog = "mcf_links" =>
        /\ lk.last # <<>> => lk.requests # <<>>
        /\ \A k \in 1..Len(lk.requests) : lk.requests[k] = k

-----------------------------------------------------------------------------
(* SpecContent: news_crawler.get_article_content(url, retries) on one URL.   *)
(* locals holds retries, attempt, and the history: outcomes, what each       *)
(* request came back with; sleeps, the number of time.sleep(2) calls.        *)

nc_MAX_RETRIES == 3

\* what one request of the article page can come back with
ContentOutcomes ==
    {[kind |-> "non200", content_len |-> 0, title |-> FALSE],
     [kind |-> "exception", content_len |-> 0, title |-> FALSE]}
    \cup [kind : {"ok"}, content_len : {0, 50, 100}, title : BOOLEAN]

\* the value returned for (None, None, None)
NoContent == [none |-> TRUE, content_len |-> 0, title |-> FALSE]

\* the body of "for attempt in range(retries)" for one outcome: <<"retry">>
\* when it sleeps and goes on (or, after an exception, falls to the next
\* iteration), otherwise <<"return", value>>
nc_attempt(o, attempt, retries) ==
    LET more == attempt < retries - 1
        page == [none |-> FALSE, content_len |-> o.content_len, title |-> o.title]
    IN  IF o.kind = "non200" THEN (IF more THEN <<"retry">> ELSE <<"return", NoContent>>)
        ELSE IF o.kind = "exception"
             THEN (IF more THEN <<"retry">> ELSE <<"return", NoContent>>)
        ELSE IF o.content_len < MIN_CONTENT_LEN /\ more THEN <<"retry">>
        ELSE IF o.content_len = 0 /\ more THEN <<"retry">>
        ELSE <<"return", page>>

InitContent ==
    /\ prog = "nc_content"
    /\ pc = "attempting"
    /\ article = <<>>
    /\ result = <<>>
    /\ IdleLinks
    /\ IdleCrawl
    /\ cell = <<0, 0>>
    /\ exit_status = <<>> /\ printed = <<>>
    /\ \E retries \in 1..nc_MAX_RETRIES :
         locals = [fn |-> "get_article_content", retries |-> retries, attempt |-> 0,
                   outcomes |-> <<>>, sleeps |-> 0]

\* one iteration of "for attempt in range(retries)"
nc_Attempt ==
    /\ prog = "nc_content" /\ pc = "attempting"
    /\ locals.attempt < locals.retries
    /\ \E o \in ContentOutcomes :
         LET r == nc_attempt(o, locals.attempt, locals.retries) IN
         /\ locals' = [locals EXCEPT
                          !.outcomes = Append(@, o),
                          !.attempt = IF r[1] = "retry" THEN @ + 1 ELSE @,
                          !.sleeps = IF r[1] = "retry" THEN @ + 1 ELSE @]
         /\ IF r[1] = "retry"
            THEN UNCHANGED <<pc, result>>
            ELSE pc' = "returned" /\ result' = <<r[2]>>
    /\ UNCHANGED <<exit_status, printed, prog, article, lk, crawlVars>>

NextContent == nc_Attempt

SpecContent == InitContent /\ [][NextContent]_vars

\* C22 (as claimed): when every one of the retries attempts met a non-200
\* status, an empty body or a body shorter than 100 characters, the function
\* made at most retries requests, slept between consecutive attempts, and
\* returns (None, None, None).
C22_ExhaustedRetriesReturnFailure ==
    (/\ prog = "nc_content" /\ pc = "returned"
     /\ Len(locals.outcomes) = locals.retries
     /\ \A k \in 1..Len(locals.outcomes) :
           \/ locals.outcomes[k].kind = "non200"
           \/ locals.outcomes[k].kind = "ok" /\ locals.outcomes[k].content_len < 100)
    => /\ Len(locals.outcomes) <= locals.retries
       /\ locals.sleeps = Len(locals.outcomes) - 1
       /\ result = <<NoContent>>

-----------------------------------------------------------------------------
(* SpecStats: the statistics counters of stock_market_crawler_v2 while the   *)
(* pool runs process_article on up to MaxLinks articles.  locals holds the   *)
(* globals total_articles_found and total_articles_with_tickers, the holder  *)
(* of stats_lock (0: free), each call's position w[i].at, its loaded counter *)
(* value w[i].tmp, and what its checks find (w[i].passes: length and date;   *)
(* w[i].has_ticker).  "x += 1" is a load followed by a store.                *)

\* "with stats_lock:" can be entered (the second definition), with the mutant
\* that enters without looking at the lock
smc_stats_lock_ignored(holder) == TRUE
smc_stats_lock_free(holder) == holder = 0

InitStats ==
    /\ prog = "smc_stats"
    /\ pc = "pool"
    /\ article = <<>>
    /\ result = <<>>
    /\ IdleLinks
    /\ IdleCrawl
    /\ cell = <<0, 0>>
    /\ exit_status = <<>> /\ printed = <<>>
    /\ \E n \in 1..MaxLinks :
         locals = [fn |-> "process_article",
                   total_articles_found |-> 0, total_articles_with_tickers |-> 0,
                   stats_lock |-> 0,
                   w |-> [i \in 1..n |-> [at |-> "queued", tmp |-> 0,
                                          passes |-> FALSE, has_ticker |-> FALSE]]]

\* a free worker takes a call: lines 500-521, extraction and the length and
\* date checks
smc_stats_Begin ==
    /\ prog = "smc_stats"
    /\ \E i \in DOMAIN locals.w, passes \in BOOLEAN, has_ticker \in BOOLEAN :
         /\ locals.w[i].at = "queued"
         /\ Cardinality({j \in DOMAIN locals.w :
                           locals.w[j].at \notin {"queued", "returned"}}) < MAX_WORKERS
         /\ locals' = [locals EXCEPT
                          !.w[i] = [at |-> IF passes THEN "found" ELSE "returned",
                                    tmp |-> 0, passes |-> passes,
                                    has_ticker |-> passes /\ has_ticker]]
    /\ UNCHANGED <<exit_status, printed, prog, pc, article, result, lk, crawlVars>>

\* "with stats_lock:" and the load of "total_articles_found += 1" (line 523)
\* or of "total_articles_with_tickers += 1" (line 533)
smc_stats_Enter ==
    /\ prog = "smc_stats"
    /\ \E i \in DOMAIN locals.w :
         /\ locals.w[i].at \in {"found", "with_tickers"}
         /\ smc_stats_lock_free(locals.stats_lock)
         /\ locals' = [locals EXCEPT
                          !.stats_lock = i,
                          !.w[i].tmp = IF locals.w[i].at = "found"
                                       THEN locals.total_articles_found
                                       ELSE locals.total_articles_with_tickers,
                          !.w[i].at = IF locals.w[i].at = "found"
                                      THEN "found_loaded" ELSE "with_tickers_loaded"]
    /\ UNCHANGED <<exit_status, printed, prog, pc, article, result, lk, crawlVars>>

\* the store of the increment and the end of the with-block; after the first
\* counter contains_target_ticker decides whether the call goes on
smc_stats_Leave ==
    /\ prog = "smc_stats"
    /\ \E i \in DOMAIN locals.w :
         \/ /\ locals.w[i].at = "found_loaded"
            /\ locals' = [locals EXCEPT
                             !.total_articles_found = locals.w[i].tmp + 1,
                             !.stats_lock = 0,
                             !.w[i].at = IF locals.w[i].has_ticker
                                         THEN "with_tickers" ELSE "returned"]
         \/ /\ locals.w[i].at = "with_tickers_loaded"
            /\ locals' = [locals EXCEPT
                             !.total_articles_with_tickers = locals.w[i].tmp + 1,
                             !.stats_lock = 0,
                             !.w[i].at = "returned"]
    /\ UNCHANGED <<exit_status, printed, prog, pc, article, result, lk, crawlVars>>

NextStats == smc_stats_Begin \/ smc_stats_Enter \/ smc_stats_Leave

SpecStats == InitStats /\ [][NextStats]_vars

\* C28: under every interleaving of the workers total_articles_with_tickers
\* never exceeds total_articles_found, and when all calls have returned
\* total_articles_found is the number of calls that passed the length and date
\* checks and total_articles_with_tickers the number that returned a record.
C28_NoCounterUpdateLost ==
    prog = "smc_stats" =>
        /\ locals.total_articles_with_tickers <= locals.total_articles_found
        /\ (\A i \in DOMAIN locals.w : locals.w[i].at = "returned") =>
              /\ locals.total_articles_found
                    = Cardinality({i \in DOMAIN locals.w : locals.w[i].passes})
              /\ locals.total_articles_with_tickers
                    = Cardinality({i \in DOMAIN locals.w : locals.w[i].has_ticker})

\* C28 witness: two calls are between their checks and the first counter at
\* the same time, one of them inside the with-block
C28_Witness ==
    /\ prog = "smc_stats"
    /\ \E i, j \in DOMAIN locals.w :
         /\ i # j
         /\ locals.w[i].at = "found_loaded"
         /\ locals.w[j].at = "found"
         /\ locals.stats_lock = i

====
